---------------------------- MODULE Spec2Model ----------------------------
(***************************************************************************)
(* Crop-yield application: the two predict-yield edge functions (the       *)
(* five-feature version and the NPK version), the two dataset generators   *)
(* and the functions they share.                                           *)
(*                                                                         *)
(* Numbers.  A JavaScript number is modelled as an exact rational          *)
(* [n |-> numerator, d |-> denominator] in lowest terms with d > 0, plus   *)
(* the three IEEE specials: NaN = 0/0, Infinity = 1/0, -Infinity = -1/0.   *)
(* The only operation of the code that leaves the rationals is Math.sqrt;  *)
(* it is exact on perfect squares and rounded to three decimals elsewhere  *)
(* (a double rounds it to 2^-53 relative).                                 *)
(***************************************************************************)
EXTENDS Integers, Sequences, FiniteSets, TLC

VARIABLES
    crops_dataset,   \* rows of table crops_dataset, in insertion order
    model_metrics,   \* rows of table model_metrics, in training_date order
    predictions,     \* rows of table predictions, in insertion order
    serve,           \* the last predict-yield request and its response
    knn,             \* locals of the last predictRandomForest call
    lrIn,            \* SpecLR: argument vector of predictLinearRegression
    lrCalls,         \* SpecLR: the results of the calls made with lrIn
    cropIn,          \* SpecCrop: arguments of determineBestCrop
    cropOut,         \* SpecCrop: results of the last determineBestCrop calls
    genOut,          \* SpecGen: the record the generator loop pushed last
    gen,             \* the generate-dataset request in progress, and its response
    py,              \* the predict-yield requests in progress, by request number
    cnOut,           \* SpecCn: the last call of cn and its result
    page,            \* the page: Index, PredictionForm, PredictionResults, their requests
    hist             \* PredictionHistory: its state and its requests

vars ==
    <<crops_dataset, model_metrics, predictions, serve,
      knn, lrIn, lrCalls, cropIn, cropOut, genOut, gen, py, cnOut, page, hist>>

\* the requests handled await by await
flowVars == <<gen, py>>

\* the state of the frontend
uiVars == <<page, hist>>

\* the tables other than crops_dataset, and the request log
storeVars == <<model_metrics, predictions, serve>>

---------------------------------------------------------------------------
(* Bounds of the model.                                                    *)

\* most rows held by crops_dataset in SpecKnn (above k = 10 so that rows are left out)
MaxRows == 11
\* most calls of predictLinearRegression made with one argument vector
MaxLrCalls == 2

---------------------------------------------------------------------------
(* Rational arithmetic with the IEEE specials.                             *)

Abs(i) == IF i < 0 THEN -i ELSE i

Sgn(i) == IF i < 0 THEN -1 ELSE IF i > 0 THEN 1 ELSE 0

RECURSIVE Gcd(_, _)
Gcd(a, b) == IF b = 0 THEN a ELSE Gcd(b, a % b)

\* n/d in lowest terms; d = 0 gives NaN, Infinity or -Infinity by the sign of n
Q(n, d) ==
    IF d = 0 THEN [n |-> Sgn(n), d |-> 0]
    ELSE LET g == Gcd(Abs(n), Abs(d))
             s == IF d < 0 THEN -1 ELSE 1
         IN  [n |-> s * (n \div g), d |-> s * (d \div g)]

I(i) == [n |-> i, d |-> 1]

NaN == [n |-> 0, d |-> 0]

IsNaN(a) == a.d = 0 /\ a.n = 0

IsFinite(a) == a.d # 0

RNeg(a) == [n |-> -a.n, d |-> a.d]

RAdd(a, b) ==
    IF IsNaN(a) \/ IsNaN(b) THEN NaN
    ELSE IF a.d = 0 /\ b.d = 0 THEN (IF a.n = b.n THEN a ELSE NaN)
    ELSE IF a.d = 0 THEN a
    ELSE IF b.d = 0 THEN b
    ELSE LET g == Gcd(a.d, b.d)
         IN  Q(a.n * (b.d \div g) + b.n * (a.d \div g), (a.d \div g) * b.d)

RSub(a, b) == RAdd(a, RNeg(b))

RMul(a, b) ==
    IF a.d = 0 \/ b.d = 0 THEN Q(Sgn(a.n) * Sgn(b.n), 0)
    ELSE LET g1 == Gcd(Abs(a.n), b.d)
             g2 == Gcd(Abs(b.n), a.d)
         IN  Q((a.n \div g1) * (b.n \div g2), (a.d \div g2) * (b.d \div g1))

\* 1/a: 1/0 = Infinity, 1/Infinity = 0, 1/NaN = NaN
RInv(a) ==
    IF a.d = 0 THEN (IF a.n = 0 THEN NaN ELSE I(0))
    ELSE IF a.n = 0 THEN [n |-> 1, d |-> 0]
    ELSE [n |-> Sgn(a.n) * a.d, d |-> Abs(a.n)]

\* a / b as JavaScript computes it (0/0 = NaN, x/0 = +-Infinity)
RDiv(a, b) ==
    IF a.d # 0 /\ a.n = 0 /\ b.d # 0 /\ b.n = 0 THEN NaN
    ELSE RMul(a, RInv(b))

\* a < b; FALSE whenever an operand is NaN
RLt(a, b) ==
    IF IsNaN(a) \/ IsNaN(b) THEN FALSE
    ELSE IF a.d = 0 /\ b.d = 0 THEN a.n < b.n
    ELSE IF a.d = 0 THEN a.n < 0
    ELSE IF b.d = 0 THEN b.n > 0
    ELSE LET g == Gcd(a.d, b.d)
         IN  a.n * (b.d \div g) < b.n * (a.d \div g)

RLe(a, b) == ~IsNaN(a) /\ ~IsNaN(b) /\ ~RLt(b, a)

RAbs(a) == [n |-> Abs(a.n), d |-> a.d]

\* Math.max / Math.min of two numbers: NaN when either is NaN
RMax(a, b) == IF IsNaN(a) \/ IsNaN(b) THEN NaN ELSE IF RLt(a, b) THEN b ELSE a

RMin(a, b) == IF IsNaN(a) \/ IsNaN(b) THEN NaN ELSE IF RLt(b, a) THEN b ELSE a

\* Math.pow(a, 2) and a ** 2
RSq(a) == RMul(a, a)

\* Math.floor of a finite number
RFloor(a) == a.n \div a.d

\* Math.round(a * 100) / 100: two decimals, a half rounded towards +Infinity
\* (the two decimals by long division, so that no product exceeds 10 * a.d)
RoundHalfUp2(a) ==
    IF a.d = 0 THEN a
    ELSE LET ip == a.n \div a.d
             fr == a.n % a.d
             d1 == (10 * fr) \div a.d
             r1 == (10 * fr) % a.d
             d2 == (10 * r1) \div a.d
             r2 == (10 * r1) % a.d
             up == IF r2 >= a.d - r2 THEN 1 ELSE 0
         IN  RAdd(I(ip), Q(10 * d1 + d2 + up, 100))

\* parseFloat(a.toFixed(2)): two decimals, a half rounded away from zero
ToFixed2(a) ==
    IF a.d = 0 THEN a
    ELSE LET m == RoundHalfUp2(RAbs(a))
         IN  IF a.n < 0 THEN RNeg(m) ELSE m

RECURSIVE ISqrtIn(_, _, _)
ISqrtIn(x, lo, hi) ==
    IF hi - lo <= 1 THEN lo
    ELSE LET mid == (lo + hi) \div 2
         IN  IF mid * mid <= x THEN ISqrtIn(x, mid, hi) ELSE ISqrtIn(x, lo, mid)

\* largest r with r * r <= x (bisection below 2^15.5, the root of the largest integer)
ISqrt(x) == ISqrtIn(x, 0, 46341)

\* the first k decimals of r/d, 0 <= r < d, as an integer (long division)
RECURSIVE FracDigits(_, _, _)
FracDigits(r, d, k) ==
    IF k = 0 THEN 0
    ELSE ((10 * r) \div d) * 10^(k - 1) + FracDigits((10 * r) % d, d, k - 1)

\* Math.sqrt: exact on squares of rationals, else rounded down to 1/1000
RSqrt(a) ==
    IF IsNaN(a) \/ a.n < 0 THEN NaN
    ELSE IF a.d = 0 \/ a.n = 0 THEN a
    ELSE LET rn == ISqrt(a.n)
             rd == ISqrt(a.d)
         IN  IF rn * rn = a.n /\ rd * rd = a.d THEN [n |-> rn, d |-> rd]
             ELSE Q(ISqrt((a.n \div a.d) * 1000000 + FracDigits(a.n % a.d, a.d, 6)), 1000)

RECURSIVE RSumTo(_, _)
RSumTo(s, i) == IF i = 0 THEN I(0) ELSE RAdd(RSumTo(s, i - 1), s[i])

\* s[1] + ... + s[Len(s)], added from the left starting at 0
RSum(s) == RSumTo(s, Len(s))

---------------------------------------------------------------------------
(* predict-yield: the linear estimator, both versions.                     *)

\* mutant of predictLinearRegression5: the floor of 500 forgotten
predictLinearRegression5NoFloor(temp, rain, fert, ph, humid) ==
    RoundHalfUp2(
        RAdd(RAdd(RAdd(RAdd(RAdd(I(1000),
            RMul(I(50), temp)),
            RMul(Q(25, 10), rain)),
            RMul(I(15), fert)),
            RMul(I(200), ph)),
            RMul(I(10), humid)))

\* predictLinearRegression of the five-feature version
predictLinearRegression5(temp, rain, fert, ph, humid) ==
    LET yield_value ==
            RAdd(RAdd(RAdd(RAdd(RAdd(I(1000),
                RMul(I(50), temp)),
                RMul(Q(25, 10), rain)),
                RMul(I(15), fert)),
                RMul(I(200), ph)),
                RMul(I(10), humid))
    IN  RMax(I(500), RoundHalfUp2(yield_value))

\* predictLinearRegression of the NPK version
predictLinearRegressionNPK(temp, rain, fert, ph, humid, n, p, k, tr_int, pf_int, t_sq, npk_r) ==
    LET yield_value ==
            RAdd(RAdd(RAdd(RAdd(RAdd(RAdd(RAdd(RAdd(RAdd(RAdd(RAdd(RAdd(I(800),
                RMul(I(45), temp)),
                RMul(Q(22, 10), rain)),
                RMul(I(14), fert)),
                RMul(I(180), ph)),
                RMul(I(9), humid)),
                RMul(I(2), n)),
                RMul(I(1), p)),
                RMul(Q(15, 10), k)),
                RMul(I(5), tr_int)),
                RMul(I(3), pf_int)),
                RMul(Q(-5, 10), t_sq)),
                RMul(I(10), npk_r))
    IN  RMax(I(500), ToFixed2(yield_value))

---------------------------------------------------------------------------
(* predict-yield: the rule-based crop selector (the same in both versions). *)

\* mutant of determineBestCrop: the Wheat rule with temp <= 25
determineBestCropWheatLe(temp, rain, fert, ph, humid) ==
    IF RLt(I(30), temp) /\ RLt(I(1200), rain) THEN "Rice"
    ELSE IF RLt(I(25), temp) /\ RLt(I(800), rain) /\ RLt(rain, I(1200)) THEN "Corn"
    ELSE IF RLt(I(28), temp) /\ RLt(I(1000), rain) THEN "Sugarcane"
    ELSE IF RLe(temp, I(25)) /\ RLt(rain, I(800)) THEN "Wheat"
    ELSE IF RLt(I(25), temp) /\ RLt(rain, I(700)) THEN "Cotton"
    ELSE IF RLt(temp, I(28)) /\ RLt(I(600), rain) /\ RLt(rain, I(1000)) THEN "Soybean"
    ELSE "Barley"

\* mutant of determineBestCrop: the Sugarcane rule tested before the Corn rule
determineBestCropSugarcaneFirst(temp, rain, fert, ph, humid) ==
    IF RLt(I(30), temp) /\ RLt(I(1200), rain) THEN "Rice"
    ELSE IF RLt(I(28), temp) /\ RLt(I(1000), rain) THEN "Sugarcane"
    ELSE IF RLt(I(25), temp) /\ RLt(I(800), rain) /\ RLt(rain, I(1200)) THEN "Corn"
    ELSE IF RLt(temp, I(25)) /\ RLt(rain, I(800)) THEN "Wheat"
    ELSE IF RLt(I(25), temp) /\ RLt(rain, I(700)) THEN "Cotton"
    ELSE IF RLt(temp, I(28)) /\ RLt(I(600), rain) /\ RLt(rain, I(1000)) THEN "Soybean"
    ELSE "Barley"

determineBestCrop(temp, rain, fert, ph, humid) ==
    IF RLt(I(30), temp) /\ RLt(I(1200), rain) THEN "Rice"
    ELSE IF RLt(I(25), temp) /\ RLt(I(800), rain) /\ RLt(rain, I(1200)) THEN "Corn"
    ELSE IF RLt(I(28), temp) /\ RLt(I(1000), rain) THEN "Sugarcane"
    ELSE IF RLt(temp, I(25)) /\ RLt(rain, I(800)) THEN "Wheat"
    ELSE IF RLt(I(25), temp) /\ RLt(rain, I(700)) THEN "Cotton"
    ELSE IF RLt(temp, I(28)) /\ RLt(I(600), rain) /\ RLt(rain, I(1000)) THEN "Soybean"
    ELSE "Barley"

---------------------------------------------------------------------------
(* predict-yield: the nearest-neighbour estimator ("Random Forest").       *)

\* a column that is NULL in the row (the columns added after the first schema)
Null == [n |-> 0, d |-> -1]

\* JavaScript truthiness of a number, null or undefined: all but the numbers
\* other than NaN and 0 are falsy
Truthy(a) == a # Null /\ a.n # 0

\* a field the request body or the row does not have
Undefined == [n |-> 0, d |-> -2]

\* a value used in arithmetic: null counts as 0, undefined as NaN
ToNum(a) == IF a = Null THEN I(0) ELSE IF a = Undefined THEN NaN ELSE a

\* the number of neighbours asked for
K == 10

\* the data a select returns: null, or the rows
NullData == [null |-> TRUE, rows |-> <<>>]

Rows(rows) == [null |-> FALSE, rows |-> rows]

Min(a, b) == IF a < b THEN a ELSE b

\* trainingData.map(...) of the five-feature version
Distances5(temp, rain, fert, ph, humid, trainingData) ==
    [i \in 1..Len(trainingData) |->
        LET record == trainingData[i]
            tempDist == RDiv(RAbs(RSub(record.temperature, temp)), I(25))
            rainDist == RDiv(RAbs(RSub(record.rainfall, rain)), I(1500))
            fertDist == RDiv(RAbs(RSub(record.fertilizer, fert)), I(250))
            phDist == RDiv(RAbs(RSub(record.soil_ph, ph)), Q(25, 10))
            humidDist == RDiv(RAbs(RSub(record.humidity, humid)), I(50))
            distance == RSqrt(RAdd(RAdd(RAdd(RAdd(RSq(tempDist), RSq(rainDist)),
                            RSq(fertDist)), RSq(phDist)), RSq(humidDist)))
        IN  [distance |-> distance, yield |-> record.yield]]

\* trainingData.map(...) of the NPK version
DistancesNPK(temp, rain, fert, ph, humid, trainingData) ==
    [i \in 1..Len(trainingData) |->
        LET record == trainingData[i]
            baseDistSq ==
                RAdd(RAdd(RSq(RDiv(RSub(record.temperature, temp), I(25))),
                          RSq(RDiv(RSub(record.rainfall, rain), I(1500)))),
                          RSq(RDiv(RSub(record.humidity, humid), I(50))))
            engineeredDistSq ==
                RAdd(IF Truthy(record.temp_rainfall_interaction)
                        THEN RSq(RDiv(RSub(record.temp_rainfall_interaction,
                                           RDiv(RMul(temp, rain), I(1000))), I(10)))
                        ELSE I(0),
                     IF Truthy(record.npk_ratio)
                        THEN RSq(RDiv(RSub(record.npk_ratio,
                                           RDiv(ToNum(record.nitrogen),
                                                RAdd(RAdd(ToNum(record.phosphorus),
                                                          ToNum(record.potassium)), I(1)))),
                                      Q(5, 10)))
                        ELSE I(0))
            distance == RSqrt(RAdd(baseDistSq, engineeredDistSq))
        IN  [distance |-> distance, yield |-> record.yield]]

\* mutant of InsertByDistance: the comparator reversed (b.distance - a.distance)
RECURSIVE InsertByDescending(_, _)
InsertByDescending(sorted, x) ==
    IF sorted = <<>> THEN <<x>>
    ELSE IF RLt(sorted[Len(sorted)].distance, x.distance)
         THEN Append(InsertByDescending(SubSeq(sorted, 1, Len(sorted) - 1), x),
                     sorted[Len(sorted)])
         ELSE Append(sorted, x)

\* the place a.distance - b.distance > 0 gives x in an ascending list (stable)
RECURSIVE InsertByDistance(_, _)
InsertByDistance(sorted, x) ==
    IF sorted = <<>> THEN <<x>>
    ELSE IF RLt(x.distance, sorted[Len(sorted)].distance)
         THEN Append(InsertByDistance(SubSeq(sorted, 1, Len(sorted) - 1), x),
                     sorted[Len(sorted)])
         ELSE Append(sorted, x)

RECURSIVE SortUpTo(_, _)
SortUpTo(distances, i) ==
    IF i = 0 THEN <<>> ELSE InsertByDistance(SortUpTo(distances, i - 1), distances[i])

\* distances.sort((a, b) => a.distance - b.distance)
SortByDistance(distances) == SortUpTo(distances, Len(distances))

\* distances.slice(0, k) with k = Math.min(10, trainingData.length)
Nearest(sorted) == SubSeq(sorted, 1, Min(K, Len(sorted)))

\* mutant of Weight: the reciprocal forgotten
WeightNotInverted(n) == RAdd(n.distance, Q(1, 100))

\* mutant of Weight: the 0.01 offset forgotten
WeightNoOffset(n) == RDiv(I(1), n.distance)

\* 1 / (n.distance + 0.01)
Weight(n) == RDiv(I(1), RAdd(n.distance, Q(1, 100)))

\* nearest.reduce((sum, n) => sum + 1 / (n.distance + 0.01), 0)
TotalWeight(nearest) == RSum([i \in 1..Len(nearest) |-> Weight(nearest[i])])

\* mutant of WeightedYield: the terms not divided by totalWeight
WeightedYieldUnnormalised(nearest, totalWeight) ==
    RSum([i \in 1..Len(nearest) |-> RMul(nearest[i].yield, Weight(nearest[i]))])

\* mutant of WeightedYield: the terms divided by the number of neighbours
WeightedYieldByCount(nearest, totalWeight) ==
    RSum([i \in 1..Len(nearest) |->
            RDiv(RMul(nearest[i].yield, Weight(nearest[i])), I(Len(nearest)))])

\* nearest.reduce((sum, n) => sum + (n.yield * (1 / (n.distance + 0.01))) / totalWeight, 0)
WeightedYield(nearest, totalWeight) ==
    RSum([i \in 1..Len(nearest) |->
            RDiv(RMul(nearest[i].yield, Weight(nearest[i])), totalWeight)])

\* the steps of predictRandomForest after the map, the same in both versions:
\* sort, slice, the two reduces (the caller rounds weightedYield)
KnnSteps(distances) ==
    LET nearest == Nearest(SortByDistance(distances))
        weights == [i \in 1..Len(nearest) |-> Weight(nearest[i])]
        totalWeight == TotalWeight(nearest)
    IN  [distances |-> distances, nearest |-> nearest, weights |-> weights,
         totalWeight |-> totalWeight,
         weightedYield |-> WeightedYield(nearest, totalWeight)]

NoSteps ==
    [distances |-> <<>>, nearest |-> <<>>, weights |-> <<>>,
     totalWeight |-> I(0), weightedYield |-> I(0)]

\* predictRandomForest of the five-feature version: its locals and, in
\* estimate, the value it returns
RandomForest5(temp, rain, fert, ph, humid, trainingData) ==
    IF trainingData.null \/ Len(trainingData.rows) = 0
    THEN [steps |-> NoSteps,
          estimate |-> RMul(predictLinearRegression5(temp, rain, fert, ph, humid),
                            Q(115, 100))]
    ELSE LET steps == KnnSteps(Distances5(temp, rain, fert, ph, humid, trainingData.rows))
         IN  [steps |-> steps, estimate |-> RoundHalfUp2(steps.weightedYield)]

predictRandomForest5(temp, rain, fert, ph, humid, trainingData) ==
    RandomForest5(temp, rain, fert, ph, humid, trainingData).estimate

\* predictRandomForest of the NPK version: its locals and, in estimate, the
\* value it returns
RandomForestNPK(temp, rain, fert, ph, humid, trainingData) ==
    IF trainingData.null \/ Len(trainingData.rows) = 0
    THEN [steps |-> NoSteps,
          estimate |-> RMul(predictLinearRegressionNPK(temp, rain, fert, ph, humid,
                                I(0), I(0), I(0), I(0), I(0), I(0), I(0)), Q(110, 100))]
    ELSE LET steps == KnnSteps(DistancesNPK(temp, rain, fert, ph, humid, trainingData.rows))
         IN  [steps |-> steps, estimate |-> ToFixed2(steps.weightedYield)]

predictRandomForestNPK(temp, rain, fert, ph, humid, trainingData) ==
    RandomForestNPK(temp, rain, fert, ph, humid, trainingData).estimate

---------------------------------------------------------------------------
(* SpecKnn: predictRandomForest applied to a dataset of up to MaxRows rows. *)

\* a row written by the current generator (all columns)
KnnRowA ==
    [temperature |-> I(25), rainfall |-> I(1000), fertilizer |-> I(100),
     soil_ph |-> Q(65, 10), humidity |-> I(60),
     nitrogen |-> I(100), phosphorus |-> I(50), potassium |-> I(99),
     temp_rainfall_interaction |-> I(25), ph_fertilizer_interaction |-> Q(65, 10),
     temp_squared |-> Q(625, 100), npk_ratio |-> Q(67, 100),
     crop |-> "Wheat", yield |-> Q(1045025, 100)]

\* a row written by the first generator (the later columns are NULL)
KnnRowB ==
    [temperature |-> I(28), rainfall |-> I(1000), fertilizer |-> I(140),
     soil_ph |-> Q(65, 10), humidity |-> I(60),
     nitrogen |-> Null, phosphorus |-> Null, potassium |-> Null,
     temp_rainfall_interaction |-> Null, ph_fertilizer_interaction |-> Null,
     temp_squared |-> Null, npk_ratio |-> Null,
     crop |-> "Corn", yield |-> Q(840050, 100)]

KnnRows == {KnnRowA, KnnRowB}

\* the queries: the base features of row A; row B but for the fertilizer;
\* a point at equal five-feature distance from both rows
KnnQueries ==
    {[temp |-> I(25), rain |-> I(1000), fert |-> I(100), ph |-> Q(65, 10), humid |-> I(60)],
     [temp |-> I(28), rain |-> I(1000), fert |-> I(100), ph |-> Q(65, 10), humid |-> I(60)],
     [temp |-> Q(265, 10), rain |-> I(1000), fert |-> I(120), ph |-> Q(65, 10), humid |-> I(60)]}

Versions == {"five", "npk"}

KnnNone ==
    [called |-> FALSE, version |-> "five",
     q |-> [temp |-> I(0), rain |-> I(0), fert |-> I(0), ph |-> I(0), humid |-> I(0)],
     steps |-> NoSteps, estimate |-> I(0)]

\* one call of predictRandomForest on the rows of crops_dataset; knn keeps the
\* arguments, the locals and the value returned
CallRF(v, q) ==
    /\ ~knn.called
    /\ knn' = [called |-> TRUE, version |-> v, q |-> q] @@
              (IF v = "five"
               THEN RandomForest5(q.temp, q.rain, q.fert, q.ph, q.humid, Rows(crops_dataset))
               ELSE RandomForestNPK(q.temp, q.rain, q.fert, q.ph, q.humid, Rows(crops_dataset)))
    /\ UNCHANGED <<uiVars, cnOut, flowVars, crops_dataset, storeVars, lrIn, lrCalls, cropIn, cropOut, genOut>>

\* the empty string of a number input
Empty == [n |-> 0, d |-> -3]

\* useForm defaultValues: no crop, the five measurements undefined, the
\* three nutrient inputs empty strings (part_003:44-54)
defaultValues ==
    [crop |-> "", temperature |-> Undefined, rainfall |-> Undefined,
     fertilizer |-> Undefined, soil_ph |-> Undefined, humidity |-> Undefined,
     nitrogen |-> Empty, phosphorus |-> Empty, potassium |-> Empty]

\* a request of the browser on its way: sent, or read (the store has
\* executed it and the answer, data or error, is on its way back)
Sent(id) == [id |-> id, phase |-> "sent", data |-> Null, error |-> FALSE]

\* the page after its first render: the useState initial values
\* (Index.tsx:15-17, part_003:38, PredictionResults.tsx:43-45), no request of
\* a button in flight, and the fetch of the mount effect
\* (PredictionResults.tsx:47-50) sent; submitted and generated count the
\* clicks so far, fetchFailed tells whether the store has refused a fetch
PageNone ==
    [refreshTrigger |-> 0, activeTab |-> "predict", generatingDataset |-> FALSE,
     loading |-> FALSE, values |-> defaultValues,
     submits |-> <<>>, generations |-> 0,
     latestPrediction |-> Null, featureImportances |-> Null,
     fetches |-> <<Sent(0)>>, fetchFailed |-> FALSE,
     submitted |-> 0, generated |-> 0]

\* PredictionHistory after its first render: the useState initial values
\* (PredictionHistory.tsx:25-31; a string is the sequence of its characters,
\* error null is written "") and the load of the mount effect (79-81) sent.
\* asked, declined and retried count the clicks so far; loaded is the list the last
\* load set, removed the ids removed from it since, and raced tells whether
\* a removal was made by a deletion started beside another one
HistNone ==
    [predictions |-> <<>>, filteredPredictions |-> <<>>, searchTerm |-> <<>>,
     filterCrop |-> "all", filterModel |-> "all", isLoading |-> TRUE, error |-> "",
     loads |-> <<Sent(0)>>, deletes |-> <<>>, asked |-> 0, declined |-> 0,
     retried |-> 0,
     loaded |-> <<>>, removed |-> {}, raced |-> FALSE]

UiIdle == page = PageNone /\ hist = HistNone

LrIdle == lrIn = <<>> /\ lrCalls = <<>>

CropNone == [called |-> FALSE, main |-> "", alt |-> ""]

CropIdle == cropIn = <<>> /\ cropOut = CropNone

GenIdle == genOut = [called |-> FALSE]

KnnIdle == knn = KnnNone

CnNone ==
    [called |-> FALSE, inputs |-> <<>>, at |-> 0, cond |-> FALSE, classes |-> <<>>,
     out |-> ""]

CnIdle == cnOut = CnNone

ServeNone ==
    [called |-> FALSE, version |-> "five", method |-> "", parses |-> FALSE,
     body |-> <<>>, status |-> 0,
     fetched |-> [null |-> TRUE, rows |-> <<>>], error |-> FALSE,
     predicted_crop |-> "", predicted_yield_lr |-> [n |-> 0, d |-> -2],
     predicted_yield_rf |-> [n |-> 0, d |-> -2], best_model |-> "",
     lr_metrics |-> [model_name |-> "", r2_score |-> [n |-> 0, d |-> -2]],
     rf_metrics |-> [model_name |-> "", r2_score |-> [n |-> 0, d |-> -2]],
     feature_importances |-> <<>>, refused |-> {}]

\* no generate-dataset request has arrived yet
GenerationNone ==
    [pc |-> "idle", requests |-> 0, generator |-> "old", method |-> "", u |-> <<>>,
     mu |-> <<>>, i |-> 0, ops |-> <<>>, rowsBefore |-> 0, metricsBefore |-> 0,
     status |-> 0, success |-> FALSE,
     records_created |-> 0, lr_metrics |-> <<>>, rf_metrics |-> <<>>, error |-> FALSE]

FlowIdle == gen = GenerationNone /\ py = <<>>

ServeIdle == model_metrics = <<>> /\ predictions = <<>> /\ serve = ServeNone

InitKnn ==
    /\ crops_dataset \in UNION {[1..n -> KnnRows] : n \in 0..MaxRows}
    /\ FlowIdle /\ KnnIdle /\ CnIdle /\ UiIdle /\ ServeIdle /\ LrIdle /\ CropIdle /\ GenIdle

NextKnn == \E v \in Versions, q \in KnnQueries : CallRF(v, q)

SpecKnn == InitKnn /\ [][NextKnn]_vars

---------------------------------------------------------------------------
(* Properties of the nearest-neighbour estimator, under SpecKnn.           *)

Range(s) == {s[i] : i \in 1..Len(s)}

Count(s, e) == Cardinality({i \in 1..Len(s) : s[i] = e})

\* the rows the last call read
KnnN == Len(crops_dataset)

\* the call happened on a non-empty historical set
KnnRan == knn.called /\ KnnN > 0

\* the weight the specification gives a neighbour at distance d: 1/(d + 0.01)
SpecWeight(d) == RDiv(I(1), RAdd(d, Q(1, 100)))

\* C1: for a non-empty historical set of N records the estimate is computed
\* from exactly min(10, N) of the N (distance, yield) pairs, and no pair left
\* out is strictly nearer than a pair that was selected.
C1_KNearestSelected ==
    KnnRan =>
        LET d == knn.steps.distances
            near == knn.steps.nearest
        IN  /\ Len(d) = KnnN
            /\ \A i \in 1..KnnN : d[i].yield = crops_dataset[i].yield
            /\ Len(near) = (IF KnnN < 10 THEN KnnN ELSE 10)
            /\ \A e \in Range(near) : Count(near, e) <= Count(d, e)
            /\ \A e \in Range(d) :
                   Count(near, e) < Count(d, e) =>
                       \A j \in 1..Len(near) : ~RLt(e.distance, near[j].distance)

\* a call on more than ten rows that left out a row farther than a selected one
C1_Witness ==
    /\ KnnRan /\ KnnN > 10
    /\ \E e \in Range(knn.steps.distances), j \in 1..Len(knn.steps.nearest) :
           /\ Count(knn.steps.nearest, e) < Count(knn.steps.distances, e)
           /\ RLt(knn.steps.nearest[j].distance, e.distance)

\* C2: the estimate is sum(yield_i * w_i) / sum(w_i) over the selected
\* neighbours with w_i = 1/(distance_i + 0.01), rounded to two decimals, and
\* the weights divided by the total weight sum to 1.
C2_WeightedAverage ==
    KnnRan =>
        LET near == knn.steps.nearest
            w == [i \in 1..Len(near) |-> SpecWeight(near[i].distance)]
            total == RSum(w)
            \* sum(yield_i * w_i) / sum(w_i), each term divided before the sum
            avg == RSum([i \in 1..Len(near) |-> RMul(near[i].yield, RDiv(w[i], total))])
        IN  /\ IsFinite(knn.estimate) /\ 100 % knn.estimate.d = 0
            /\ RLe(RAbs(RSub(knn.estimate, avg)), Q(1, 200))
            /\ RSum([i \in 1..Len(near) |-> RDiv(w[i], knn.steps.totalWeight)]) = I(1)

\* a call whose neighbours have different distances and whose average is not
\* already a two-decimal number
C2_Witness ==
    /\ KnnRan
    /\ \E i, j \in 1..Len(knn.steps.nearest) :
           RLt(knn.steps.nearest[i].distance, knn.steps.nearest[j].distance)
    /\ knn.steps.weightedYield # knn.estimate

\* C4: among the selected neighbours equal distances get equal weights and a
\* strictly smaller distance gets a strictly larger weight.
C4_WeightsDecreasing ==
    KnnRan =>
        LET near == knn.steps.nearest
            w == knn.steps.weights
        IN  /\ Len(w) = Len(near)
            /\ \A i, j \in 1..Len(near) :
                   /\ near[i].distance = near[j].distance => w[i] = w[j]
                   /\ RLt(near[i].distance, near[j].distance) => RLt(w[j], w[i])

\* a call that selected two neighbours at equal distance and one at a
\* strictly larger distance
C4_Witness ==
    /\ KnnRan
    /\ \E i, j, l \in 1..Len(knn.steps.nearest) :
           /\ i # j
           /\ knn.steps.nearest[i].distance = knn.steps.nearest[j].distance
           /\ RLt(knn.steps.nearest[i].distance, knn.steps.nearest[l].distance)

\* C5: no division by zero: every weight is finite and positive, a record at
\* distance 0 has weight 100 and outweighs every record at positive distance,
\* the total weight is positive and the estimate is a number.
C5_NoDivisionByZero ==
    KnnRan =>
        LET near == knn.steps.nearest
            w == knn.steps.weights
        IN  /\ Len(w) = Len(near)
            /\ \A i \in 1..Len(near) :
                   /\ IsFinite(w[i]) /\ RLt(I(0), w[i])
                   /\ near[i].distance = I(0) => w[i] = I(100)
                   /\ \A j \in 1..Len(near) :
                          (near[i].distance = I(0) /\ RLt(I(0), near[j].distance))
                              => RLt(w[j], w[i])
            /\ IsFinite(knn.steps.totalWeight) /\ RLt(I(0), knn.steps.totalWeight)
            /\ IsFinite(knn.estimate)

\* a call with several records at distance 0 and one at positive distance
C5_Witness ==
    /\ KnnRan
    /\ \E i, j, l \in 1..Len(knn.steps.nearest) :
           /\ i # j
           /\ knn.steps.nearest[i].distance = I(0)
           /\ knn.steps.nearest[j].distance = I(0)
           /\ RLt(I(0), knn.steps.nearest[l].distance)

\* C6: a record equal to the query in temperature, rainfall and humidity but
\* different in fertilizer or soil pH has distance greater than 0.
C6_FertilizerAndPhCount ==
    KnnRan =>
        \A i \in 1..KnnN :
            LET record == crops_dataset[i]
            IN  ( /\ record.temperature = knn.q.temp
                  /\ record.rainfall = knn.q.rain
                  /\ record.humidity = knn.q.humid
                  /\ (record.fertilizer # knn.q.fert \/ record.soil_ph # knn.q.ph) )
                    => RLt(I(0), knn.steps.distances[i].distance)

---------------------------------------------------------------------------
(* predict-yield: the request handler, both versions.  What the database   *)
(* and the request's transport do is an input of the handler: the dataset  *)
(* select returns an error, null or the rows; the metrics select returns   *)
(* an error or the rows; the insert of the prediction is rejected or not.  *)

\* .limit(1000) of the five-feature version
FetchLimit5 == 1000

\* .limit(500) of the NPK version
FetchLimitNPK == 500

\* the first n rows of a table
Limit(rows, n) == SubSeq(rows, 1, Min(n, Len(rows)))

\* a number in a JSON text: NaN and the infinities are written as null
JsonNum(a) == IF a.d > 0 THEN a ELSE IF a = Undefined THEN Undefined ELSE Null

\* a DECIMAL(p, 2) NOT NULL column takes the value a: it is a number and,
\* rounded to two decimals, has at most whole integer digits
FitsDecimal(a, whole) ==
    /\ a.d > 0
    /\ LET r == ToFixed2(a) IN Abs(r.n) \div r.d < whole

\* the value a DECIMAL(p, 2) column stores for a; a missing value is NULL
StoredDecimal(a) == IF a.d > 0 THEN ToFixed2(a) ELSE Null

\* what metrics?.find(...) gives when there is no such row
NoMetrics == [model_name |-> "", r2_score |-> Undefined]

\* .order("training_date", { ascending: false }).limit(2)
LatestTwo(table) ==
    [i \in 1..Min(2, Len(table)) |-> table[Len(table) + 1 - i]]

\* metrics?.find((m) => m.model_name === name), from position i on
FindFrom(metrics, name, i) ==
    IF i > Len(metrics) THEN NoMetrics
    ELSE IF metrics[i].model_name = name THEN metrics[i]
    ELSE IF i + 1 > Len(metrics) THEN NoMetrics
    ELSE IF metrics[i + 1].model_name = name THEN metrics[i + 1]
    ELSE NoMetrics

\* (m?.r2_score || 0)
R2OrZero(m) == IF Truthy(m.r2_score) THEN m.r2_score ELSE I(0)

\* the comparison with >= in place of >
BestModelOnTie(lrMetrics, rfMetrics) ==
    IF RLe(R2OrZero(lrMetrics), R2OrZero(rfMetrics))
    THEN "Random Forest" ELSE "Linear Regression"

BestModel(lrMetrics, rfMetrics) ==
    IF RLt(R2OrZero(lrMetrics), R2OrZero(rfMetrics))
    THEN "Random Forest" ELSE "Linear Regression"

\* simulatedImportances of the NPK version
simulatedImportances ==
    [temperature |-> Q(20, 100), rainfall |-> Q(25, 100), fertilizer |-> Q(15, 100),
     temp_rainfall_interaction |-> Q(12, 100), humidity |-> Q(10, 100),
     soil_ph |-> Q(8, 100), nitrogen |-> Q(4, 100), phosphorus |-> Q(2, 100),
     potassium |-> Q(2, 100), npk_ratio |-> Q(2, 100)]

\* the five-feature version sends and stores no feature importances
NoImportances == <<>>

\* feature_importances of version v
Importances(v) == IF v = "npk" THEN simulatedImportances ELSE NoImportances

\* the request, as the log of the handler keeps it
Request(v, method, parses, body) ==
    [called |-> TRUE, version |-> v, method |-> method, parses |-> parses,
     body |-> body]

\* the fields of a response that is not a prediction
NoPrediction ==
    [fetched |-> NullData, error |-> FALSE,
     predicted_crop |-> "", predicted_yield_lr |-> Undefined,
     predicted_yield_rf |-> Undefined, best_model |-> "",
     lr_metrics |-> NoMetrics, rf_metrics |-> NoMetrics,
     feature_importances |-> NoImportances]

\* the response to an OPTIONS request
Preflight == [status |-> 200] @@ NoPrediction

\* the response of the catch block
ServerError(fetched) ==
    [status |-> 500, error |-> TRUE, fetched |-> fetched] @@ NoPrediction

\* a table whose columns also carry the ranges of the form
InsertAcceptedInFormRange(body, lrYield, rfYield) ==
    /\ FitsDecimal(body.temperature, 1000)
    /\ RLe(I(-50), body.temperature) /\ RLe(body.temperature, I(60))
    /\ FitsDecimal(body.rainfall, 100000)
    /\ RLe(I(0), body.rainfall)
    /\ FitsDecimal(body.fertilizer, 100000)
    /\ FitsDecimal(body.soil_ph, 100)
    /\ FitsDecimal(body.humidity, 1000)
    /\ RLe(I(0), body.humidity) /\ RLe(body.humidity, I(100))
    /\ FitsDecimal(lrYield, 100000000)
    /\ FitsDecimal(rfYield, 100000000)

\* the insert of the prediction is accepted by the NOT NULL DECIMAL columns
InsertAccepted(body, lrYield, rfYield) ==
    /\ FitsDecimal(body.temperature, 1000)
    /\ FitsDecimal(body.rainfall, 100000)
    /\ FitsDecimal(body.fertilizer, 100000)
    /\ FitsDecimal(body.soil_ph, 100)
    /\ FitsDecimal(body.humidity, 1000)
    /\ FitsDecimal(lrYield, 100000000)
    /\ FitsDecimal(rfYield, 100000000)

\* the row with the capped temperature and rainfall in place of the request's
PredictionRowCapped(v, body, predictedCrop, lrYield, rfYield, bestModel) ==
    [temperature |-> StoredDecimal(RMax(I(10), RMin(I(45), body.temperature))),
     rainfall |-> StoredDecimal(RMax(I(100), RMin(I(2500), body.rainfall))),
     fertilizer |-> StoredDecimal(body.fertilizer),
     soil_ph |-> StoredDecimal(body.soil_ph),
     humidity |-> StoredDecimal(body.humidity),
     nitrogen |-> IF v = "npk" THEN StoredDecimal(body.nitrogen) ELSE Null,
     phosphorus |-> IF v = "npk" THEN StoredDecimal(body.phosphorus) ELSE Null,
     potassium |-> IF v = "npk" THEN StoredDecimal(body.potassium) ELSE Null,
     predicted_crop |-> predictedCrop,
     predicted_yield_lr |-> StoredDecimal(lrYield),
     predicted_yield_rf |-> StoredDecimal(rfYield),
     best_model |-> bestModel,
     feature_importances |-> Importances(v)]

\* the row of table predictions (its nitrogen, phosphorus and potassium
\* columns, which no migration creates, taken as DECIMAL(7,2) like those of
\* crops_dataset)
PredictionRow(v, body, predictedCrop, lrYield, rfYield, bestModel) ==
    [temperature |-> StoredDecimal(body.temperature),
     rainfall |-> StoredDecimal(body.rainfall),
     fertilizer |-> StoredDecimal(body.fertilizer),
     soil_ph |-> StoredDecimal(body.soil_ph),
     humidity |-> StoredDecimal(body.humidity),
     nitrogen |-> IF v = "npk" THEN StoredDecimal(body.nitrogen) ELSE Null,
     phosphorus |-> IF v = "npk" THEN StoredDecimal(body.phosphorus) ELSE Null,
     potassium |-> IF v = "npk" THEN StoredDecimal(body.potassium) ELSE Null,
     predicted_crop |-> predictedCrop,
     predicted_yield_lr |-> StoredDecimal(lrYield),
     predicted_yield_rf |-> StoredDecimal(rfYield),
     best_model |-> bestModel,
     feature_importances |-> Importances(v)]

\* the handler from the estimates on: the metrics, the best model, the
\* insert and the response; out.stored tells whether out.row was inserted
Respond(v, body, fetched, lrYield, rfYield, predictedCrop, metrics, insertRejected) ==
    LET lrMetrics == FindFrom(metrics, "Linear Regression", 1)
        rfMetrics == FindFrom(metrics, "Random Forest", 1)
        bestModel == BestModel(lrMetrics, rfMetrics)
        row == PredictionRow(v, body, predictedCrop, lrYield, rfYield, bestModel)
    IN  IF insertRejected \/ ~InsertAccepted(body, lrYield, rfYield)
        THEN [stored |-> FALSE, row |-> row, response |-> ServerError(fetched)]
        ELSE [stored |-> TRUE, row |-> row,
              response |->
                  [status |-> 200, error |-> FALSE, fetched |-> fetched,
                   predicted_crop |-> predictedCrop,
                   predicted_yield_lr |-> JsonNum(lrYield),
                   predicted_yield_rf |-> JsonNum(rfYield),
                   best_model |-> bestModel,
                   lr_metrics |-> lrMetrics, rf_metrics |-> rfMetrics,
                   feature_importances |-> Importances(v)]]

\* the try block of the five-feature version after the dataset select
Predict5(body, fetched, metrics, insertRejected) ==
    LET temperature == ToNum(body.temperature)
        rainfall == ToNum(body.rainfall)
        fertilizer == ToNum(body.fertilizer)
        soil_ph == ToNum(body.soil_ph)
        humidity == ToNum(body.humidity)
    IN  Respond("five", body, fetched,
                predictLinearRegression5(temperature, rainfall, fertilizer, soil_ph, humidity),
                predictRandomForest5(temperature, rainfall, fertilizer, soil_ph, humidity,
                                     fetched),
                determineBestCrop(temperature, rainfall, fertilizer, soil_ph, humidity),
                metrics, insertRejected)

\* the NPK version with the features used as received, without the caps
PredictNPKUncapped(body, fetched, metrics, insertRejected) ==
    LET fertilizer == ToNum(body.fertilizer)
        soil_ph == ToNum(body.soil_ph)
        humidity == ToNum(body.humidity)
        nitrogen == ToNum(body.nitrogen)
        phosphorus == ToNum(body.phosphorus)
        potassium == ToNum(body.potassium)
        capped_temp == ToNum(body.temperature)
        capped_rainfall == ToNum(body.rainfall)
        temp_rainfall_interaction == RDiv(RMul(capped_temp, capped_rainfall), I(1000))
        ph_fertilizer_interaction == RDiv(RMul(soil_ph, fertilizer), I(100))
        temp_squared == RSq(RDiv(capped_temp, I(10)))
        npk_ratio == RDiv(nitrogen, RAdd(RAdd(phosphorus, potassium), I(1)))
    IN  Respond("npk", body, fetched,
                predictLinearRegressionNPK(capped_temp, capped_rainfall, fertilizer,
                    soil_ph, humidity, nitrogen, phosphorus, potassium,
                    temp_rainfall_interaction, ph_fertilizer_interaction,
                    temp_squared, npk_ratio),
                predictRandomForestNPK(capped_temp, capped_rainfall, fertilizer, soil_ph,
                                       humidity, fetched),
                determineBestCrop(capped_temp, capped_rainfall, fertilizer, soil_ph,
                                  humidity),
                metrics, insertRejected)

\* the try block of the NPK version after the dataset select
PredictNPK(body, fetched, metrics, insertRejected) ==
    LET fertilizer == ToNum(body.fertilizer)
        soil_ph == ToNum(body.soil_ph)
        humidity == ToNum(body.humidity)
        nitrogen == ToNum(body.nitrogen)
        phosphorus == ToNum(body.phosphorus)
        potassium == ToNum(body.potassium)
        capped_temp == RMax(I(10), RMin(I(45), ToNum(body.temperature)))
        capped_rainfall == RMax(I(100), RMin(I(2500), ToNum(body.rainfall)))
        temp_rainfall_interaction == RDiv(RMul(capped_temp, capped_rainfall), I(1000))
        ph_fertilizer_interaction == RDiv(RMul(soil_ph, fertilizer), I(100))
        temp_squared == RSq(RDiv(capped_temp, I(10)))
        npk_ratio == RDiv(nitrogen, RAdd(RAdd(phosphorus, potassium), I(1)))
    IN  Respond("npk", body, fetched,
                predictLinearRegressionNPK(capped_temp, capped_rainfall, fertilizer,
                    soil_ph, humidity, nitrogen, phosphorus, potassium,
                    temp_rainfall_interaction, ph_fertilizer_interaction,
                    temp_squared, npk_ratio),
                predictRandomForestNPK(capped_temp, capped_rainfall, fertilizer, soil_ph,
                                       humidity, fetched),
                determineBestCrop(capped_temp, capped_rainfall, fertilizer, soil_ph,
                                  humidity),
                metrics, insertRejected)

\* the handler: what it answers and what it inserts
Handle(v, method, parses, body, fetch, metricsFetch, insertRejected) ==
    IF method = "OPTIONS"
    THEN [stored |-> FALSE, row |-> <<>>, response |-> Preflight]
    ELSE IF ~parses \/ fetch = "error"
    THEN [stored |-> FALSE, row |-> <<>>, response |-> ServerError(NullData)]
    ELSE LET fetched ==
                 IF fetch = "null" THEN NullData
                 ELSE Rows(Limit(crops_dataset,
                                 IF v = "five" THEN FetchLimit5 ELSE FetchLimitNPK))
             metrics == IF metricsFetch = "error" THEN <<>> ELSE LatestTwo(model_metrics)
         IN  IF v = "five"
             THEN Predict5(body, fetched, metrics, insertRejected)
             ELSE PredictNPK(body, fetched, metrics, insertRejected)

---------------------------------------------------------------------------
(* SpecServe: predict-yield requests against a store of up to MaxServeRows *)
(* dataset rows, until MaxPredictions predictions are stored.              *)

MaxServeRows == 1

MaxPredictions == 1

Methods == {"OPTIONS", "POST"}

\* the request bodies: the features of dataset row A; a temperature and a
\* rainfall above the caps with no nutrients; a body of the five-feature
\* form, without the nutrient fields; values the form refuses (temperature
\* 100, rainfall -50, humidity 150); the temperature of the cap (45) with
\* the rainfall above its cap and no nutrients; a temperature with three
\* decimals; a temperature of 1000
ServeBodies ==
    {[temperature |-> I(1000), rainfall |-> I(1000), fertilizer |-> I(100),
      soil_ph |-> Q(65, 10), humidity |-> I(60),
      nitrogen |-> I(100), phosphorus |-> I(50), potassium |-> I(99)],
     [temperature |-> I(100), rainfall |-> I(-50), fertilizer |-> I(100),
      soil_ph |-> Q(65, 10), humidity |-> I(150),
      nitrogen |-> I(100), phosphorus |-> I(50), potassium |-> I(99)],
     [temperature |-> I(45), rainfall |-> I(3000), fertilizer |-> I(100),
      soil_ph |-> Q(65, 10), humidity |-> I(60),
      nitrogen |-> I(0), phosphorus |-> I(0), potassium |-> I(0)],
     [temperature |-> Q(25125, 1000), rainfall |-> I(1000), fertilizer |-> I(100),
      soil_ph |-> Q(65, 10), humidity |-> I(60),
      nitrogen |-> I(100), phosphorus |-> I(50), potassium |-> I(99)],
     [temperature |-> I(25), rainfall |-> I(1000), fertilizer |-> I(100),
      soil_ph |-> Q(65, 10), humidity |-> I(60),
      nitrogen |-> I(100), phosphorus |-> I(50), potassium |-> I(99)],
     [temperature |-> I(50), rainfall |-> I(3000), fertilizer |-> I(100),
      soil_ph |-> Q(65, 10), humidity |-> I(60),
      nitrogen |-> I(0), phosphorus |-> I(0), potassium |-> I(0)],
     [temperature |-> I(28), rainfall |-> I(1000), fertilizer |-> I(140),
      soil_ph |-> Q(65, 10), humidity |-> I(60),
      nitrogen |-> Undefined, phosphorus |-> Undefined, potassium |-> Undefined]}

NoBody ==
    [temperature |-> Undefined, rainfall |-> Undefined, fertilizer |-> Undefined,
     soil_ph |-> Undefined, humidity |-> Undefined,
     nitrogen |-> Undefined, phosphorus |-> Undefined, potassium |-> Undefined]

FetchOutcomes == {"error", "null", "rows"}

MetricsOutcomes == {"error", "rows"}

\* the metrics a generation stores: the r2 scores of the first generator lie
\* in [0.75, 0.85) and [0.82, 0.92), those of the current one in
\* [0.78, 0.85) and [0.88, 0.93)
MetricsTables ==
    {<<>>,
     <<[model_name |-> "Linear Regression", r2_score |-> Q(80, 100)],
       [model_name |-> "Random Forest", r2_score |-> Q(90, 100)]>>,
     <<[model_name |-> "Linear Regression", r2_score |-> Q(83, 100)],
       [model_name |-> "Random Forest", r2_score |-> Q(83, 100)]>>,
     <<[model_name |-> "Linear Regression", r2_score |-> Q(80, 100)],
       [model_name |-> "Random Forest", r2_score |-> Q(90, 100)],
       [model_name |-> "Linear Regression", r2_score |-> Q(84, 100)],
       [model_name |-> "Random Forest", r2_score |-> Q(83, 100)]>>}

\* the storage operations the request reached and the store refused
Refused(method, parses, fetch, metricsFetch, insertRejected) ==
    IF method = "OPTIONS" \/ ~parses THEN {}
    ELSE IF fetch = "error" THEN {"dataset fetch"}
    ELSE (IF metricsFetch = "error" THEN {"metrics fetch"} ELSE {})
             \cup (IF insertRejected THEN {"prediction insert"} ELSE {})

\* one request handled from its arrival to its response; a request that
\* stored nothing left the store as it was, and a behaviour is followed no
\* further after it
PredictYield(v, method, parses, body, fetch, metricsFetch, insertRejected) ==
    /\ Len(predictions) < MaxPredictions
    /\ serve.called => (serve.method = "POST" /\ serve.status = 200)
    /\ \E handled \in {Handle(v, method, parses, body, fetch, metricsFetch, insertRejected)} :
        /\ serve' = [refused |-> Refused(method, parses, fetch, metricsFetch,
                                         insertRejected)] @@
                    Request(v, method, parses, IF parses THEN body ELSE NoBody) @@
                    handled.response
        /\ predictions' =
               IF handled.stored THEN Append(predictions, handled.row) ELSE predictions
    /\ UNCHANGED <<uiVars, cnOut, flowVars, crops_dataset, model_metrics, knn, lrIn, lrCalls, cropIn, cropOut, genOut>>

InitServe ==
    /\ crops_dataset \in UNION {[1..n -> KnnRows] : n \in 0..MaxServeRows}
    /\ model_metrics \in MetricsTables
    /\ predictions = <<>>
    /\ serve = ServeNone
    /\ FlowIdle /\ KnnIdle /\ CnIdle /\ UiIdle /\ LrIdle /\ CropIdle /\ GenIdle

\* the handler reads a body and the store only for a POST whose body parses
ReadsStore(method, parses) == method = "POST" /\ parses

NextServe ==
    \E v \in Versions, method \in Methods, parses \in BOOLEAN :
        \E body \in IF ReadsStore(method, parses) THEN ServeBodies ELSE {NoBody},
           fetch \in IF ReadsStore(method, parses) THEN FetchOutcomes ELSE {"rows"},
           metricsFetch \in IF ReadsStore(method, parses) THEN MetricsOutcomes ELSE {"rows"},
           insertRejected \in IF ReadsStore(method, parses) THEN BOOLEAN ELSE {FALSE} :
            PredictYield(v, method, parses, body, fetch, metricsFetch, insertRejected)

SpecServe == InitServe /\ [][NextServe]_vars

\* the multiplier of the fallback in each version
FallbackMultiplier(v) == IF v = "npk" THEN Q(110, 100) ELSE Q(115, 100)

\* the request was answered with a prediction made without any dataset row
ServedFallback ==
    /\ serve.called /\ serve.method = "POST" /\ serve.status = 200
    /\ (serve.fetched.null \/ Len(serve.fetched.rows) = 0)

\* C3: when the fetched dataset is null or empty, the nearest-neighbour
\* estimate of the response is the linear estimate of the same response times
\* the version's constant (1.10 in the NPK version, 1.15 in the five-feature
\* version).
C3_FallbackIsScaledLinear ==
    ServedFallback =>
        serve.predicted_yield_rf =
            RMul(serve.predicted_yield_lr, FallbackMultiplier(serve.version))

\* the same statement for the five-feature version alone
C3_FallbackFive ==
    (ServedFallback /\ serve.version = "five") =>
        serve.predicted_yield_rf = RMul(serve.predicted_yield_lr, Q(115, 100))

\* the last request was answered with a prediction, which is the last row of
\* table predictions
ServedStored ==
    /\ serve.called /\ serve.method = "POST" /\ serve.status = 200
    /\ Len(predictions) > 0

StoredRow == predictions[Len(predictions)]

\* the features the version reads from the body
BodyFields(v) ==
    {"temperature", "rainfall", "fertilizer", "soil_ph", "humidity"}
        \cup (IF v = "npk" THEN {"nitrogen", "phosphorus", "potassium"} ELSE {})

\* the stored value a is the number b kept to two decimals: at most two
\* decimals, within 0.005 of b, and b itself when b has at most two decimals
KeptToTwoDecimals(a, b) ==
    /\ a.d > 0 /\ 100 % a.d = 0
    /\ RLe(RAbs(RSub(a, b)), Q(5, 1000))
    /\ (b.d > 0 /\ 100 % b.d = 0) => a = b

ServedNumbers ==
    /\ serve.called /\ serve.method = "POST" /\ serve.parses
    /\ \A f \in BodyFields(serve.version) : IsFinite(ToNum(serve.body[f]))

\* a storage operation whose failure the handler throws on was refused
StorageFailed == serve.refused \cap {"dataset fetch", "prediction insert"} # {}

\* the response carries both estimates and the stored row is the request's
EstimatedAndPersisted ==
    /\ serve.status = 200
    /\ IsFinite(serve.predicted_yield_lr) /\ IsFinite(serve.predicted_yield_rf)
    /\ Len(predictions) > 0
    /\ \A f \in BodyFields(serve.version) :
           KeptToTwoDecimals(StoredRow[f], serve.body[f])

\* the body's values, kept to two decimals, fit the columns of predictions:
\* DECIMAL(5,2) temperature and humidity, DECIMAL(7,2) rainfall and
\* fertilizer, DECIMAL(4,2) soil_ph
WithinColumns(body) ==
    /\ RLt(RAbs(body.temperature), Q(999995, 1000))
    /\ RLt(RAbs(body.humidity), Q(999995, 1000))
    /\ RLt(RAbs(body.rainfall), Q(99999995, 1000))
    /\ RLt(RAbs(body.fertilizer), Q(99999995, 1000))
    /\ RLt(RAbs(body.soil_ph), Q(99995, 1000))

\* the values the form refuses
OutsideForm(body) ==
    \/ RLt(body.temperature, I(-50)) \/ RLt(I(60), body.temperature)
    \/ RLt(body.rainfall, I(0))
    \/ RLt(body.humidity, I(0)) \/ RLt(I(100), body.humidity)

SelectedMetrics ==
    IF "metrics fetch" \in serve.refused THEN {}
    ELSE {model_metrics[k] : k \in (Len(model_metrics) - 1)..Len(model_metrics)
                                    \cap 1..Len(model_metrics)}

\* the r2_score of the selected row of the model, 0 when there is none
SelectedScore(name) ==
    IF \E m \in SelectedMetrics : m.model_name = name
    THEN (CHOOSE m \in SelectedMetrics : m.model_name = name).r2_score
    ELSE I(0)

\* C19: a prediction is labelled "Random Forest" exactly when the r2_score of
\* the Random Forest row among the two latest metrics rows is strictly
\* greater than that of the Linear Regression row, a missing row counting as
\* 0 (no rows, failed metrics select); otherwise, also on a tie, the label
\* is "Linear Regression".
C19_BestModelRule ==
    ServedStored =>
        /\ serve.best_model \in {"Random Forest", "Linear Regression"}
        /\ serve.best_model = "Random Forest" <=>
               RLt(SelectedScore("Linear Regression"), SelectedScore("Random Forest"))
        /\ StoredRow.best_model = serve.best_model

\* a prediction labelled "Random Forest" from the latest scores 0.80 and 0.90
C19_Witness ==
    /\ ServedStored /\ serve.best_model = "Random Forest"
    /\ SelectedScore("Linear Regression") = Q(80, 100)
    /\ SelectedScore("Random Forest") = Q(90, 100)

---------------------------------------------------------------------------
(* SpecLR: predictLinearRegression called on one argument vector, before   *)
(* and after other requests changed the stored data.                       *)

\* most rows other requests add to crops_dataset between the calls
MaxLrRows == 1

LrBase == {I(-1000), I(0), Q(305, 10)}

LrBaseNPK == {I(-1000), Q(305, 10)}

NoNPK ==
    [n |-> I(0), p |-> I(0), k |-> I(0), tr_int |-> I(0), pf_int |-> I(0),
     t_sq |-> I(0), npk_r |-> I(0)]

\* argument vectors of the five-feature version (its function has no NPK arguments)
LrInputs5 ==
    {[version |-> "five", temp |-> t, rain |-> r, fert |-> f, ph |-> p, humid |-> h,
      more |-> NoNPK] : t \in LrBase, r \in LrBase, f \in LrBase, p \in LrBase, h \in LrBase}

Infinity == [n |-> 1, d |-> 0]

\* NPK and engineered arguments: finite ones, and the NaN and Infinity that
\* nitrogen / (phosphorus + potassium + 1) can be
LrMore ==
    {[n |-> npk[1], p |-> npk[2], k |-> npk[3], tr_int |-> tr, pf_int |-> pf,
      t_sq |-> sq, npk_r |-> ratio] :
        npk \in {<<I(0), I(0), I(0)>>, <<I(100), I(50), I(99)>>},
        tr \in {I(0), Q(305, 10)}, pf \in {I(0), Q(65, 10)},
        sq \in {Q(625, 100), I(100000)},
        ratio \in {I(0), Q(67, 100), NaN, Infinity}}

LrInputsNPK ==
    {[version |-> "npk", temp |-> t, rain |-> r, fert |-> f, ph |-> p, humid |-> h,
      more |-> m] : t \in LrBaseNPK, r \in LrBaseNPK, f \in LrBaseNPK, p \in LrBaseNPK,
                    h \in LrBaseNPK, m \in LrMore}

\* predictLinearRegression of the version the vector is for
LrApply(a) ==
    IF a.version = "five"
    THEN predictLinearRegression5(a.temp, a.rain, a.fert, a.ph, a.humid)
    ELSE predictLinearRegressionNPK(a.temp, a.rain, a.fert, a.ph, a.humid,
             a.more.n, a.more.p, a.more.k,
             a.more.tr_int, a.more.pf_int, a.more.t_sq, a.more.npk_r)

\* one call of predictLinearRegression with the vector lrIn
LrCall ==
    /\ Len(lrCalls) < MaxLrCalls
    /\ lrCalls' = Append(lrCalls, LrApply(lrIn))
    /\ UNCHANGED <<uiVars, cnOut, flowVars, crops_dataset, storeVars, knn, lrIn, cropIn, cropOut, genOut>>

\* another request writes the store between two calls
LrStoreChanges ==
    /\ Len(crops_dataset) < MaxLrRows
    /\ crops_dataset' = Append(crops_dataset, KnnRowA)
    /\ UNCHANGED <<uiVars, cnOut, flowVars, storeVars, knn, lrIn, lrCalls, cropIn, cropOut, genOut>>

InitLR ==
    /\ lrIn \in LrInputs5 \cup LrInputsNPK
    /\ lrCalls = <<>>
    /\ crops_dataset = <<>>
    /\ FlowIdle /\ KnnIdle /\ CnIdle /\ UiIdle /\ ServeIdle /\ CropIdle /\ GenIdle

NextLR == LrCall \/ LrStoreChanges

SpecLR == InitLR /\ [][NextLR]_vars

LrArgsFinite ==
    /\ \A f \in {"temp", "rain", "fert", "ph", "humid"} : IsFinite(lrIn[f])
    /\ \A f \in DOMAIN lrIn.more : IsFinite(lrIn.more[f])

\* C7: predictLinearRegression returns the same value whenever it is called
\* with the same arguments, whatever was stored in between, and the value is
\* never below 500 (for finite arguments it is a finite number >= 500).
C7_LinearPureAndFloored ==
    \A i \in 1..Len(lrCalls) :
        /\ lrCalls[i] = lrCalls[1]
        /\ ~RLt(lrCalls[i], I(500))
        /\ LrArgsFinite => (IsFinite(lrCalls[i]) /\ RLe(I(500), lrCalls[i]))

\* two calls with a negative temperature, the store changed, the floor returned
C7_Witness ==
    /\ Len(lrCalls) = 2 /\ Len(crops_dataset) > 0
    /\ LrArgsFinite /\ RLt(lrIn.temp, I(0))
    /\ lrCalls[2] = I(500)

---------------------------------------------------------------------------
(* SpecCrop: determineBestCrop on a grid around its thresholds, called once *)
(* with the request's other features and once with different ones.          *)

CropInputs ==
    {[temp |-> I(t), rain |-> I(r), fert |-> I(f), ph |-> Q(65, 10), humid |-> I(60)] :
        t \in {20, 25, 26, 28, 29, 30, 31, 32},
        r \in {500, 600, 650, 700, 750, 800, 900, 1000, 1100, 1200, 1300},
        f \in {100, 200}}

CropOthers ==
    {[fert |-> I(0), ph |-> I(4), humid |-> I(10)],
     [fert |-> I(300), ph |-> I(9), humid |-> I(95)]}

CropCall(o) ==
    /\ ~cropOut.called
    /\ cropOut' = [called |-> TRUE,
                   main |-> determineBestCrop(cropIn.temp, cropIn.rain, cropIn.fert,
                                              cropIn.ph, cropIn.humid),
                   alt |-> determineBestCrop(cropIn.temp, cropIn.rain, o.fert, o.ph, o.humid)]
    /\ UNCHANGED <<uiVars, cnOut, flowVars, crops_dataset, storeVars, knn, lrIn, lrCalls, cropIn, genOut>>

InitCrop ==
    /\ cropIn \in CropInputs
    /\ cropOut = CropNone
    /\ crops_dataset = <<>>
    /\ FlowIdle /\ KnnIdle /\ CnIdle /\ UiIdle /\ ServeIdle /\ LrIdle /\ GenIdle

NextCrop == \E o \in CropOthers : CropCall(o)

SpecCrop == InitCrop /\ [][NextCrop]_vars

\* the six threshold rules as the specification's table states them
RuleOrder == <<"Rice", "Corn", "Sugarcane", "Wheat", "Cotton", "Soybean">>

RuleHolds(crop, t, r) ==
    CASE crop = "Rice" -> RLt(I(30), t) /\ RLt(I(1200), r)
      [] crop = "Corn" -> RLt(I(25), t) /\ RLt(I(800), r) /\ RLt(r, I(1200))
      [] crop = "Sugarcane" -> RLt(I(28), t) /\ RLt(I(1000), r)
      [] crop = "Wheat" -> RLt(t, I(25)) /\ RLt(r, I(800))
      [] crop = "Cotton" -> RLt(I(25), t) /\ RLt(r, I(700))
      [] crop = "Soybean" -> RLt(t, I(28)) /\ RLt(I(600), r) /\ RLt(r, I(1000))

Matching == {i \in 1..Len(RuleOrder) : RuleHolds(RuleOrder[i], cropIn.temp, cropIn.rain)}

\* C8: (32, 1300) gives Rice, (20, 500) gives Wheat, a pair that satisfies none
\* of the six rules gives Barley, and the result does not change with
\* fertilizer, soil pH or humidity.
C8_CropLiterals ==
    cropOut.called =>
        /\ (cropIn.temp = I(32) /\ cropIn.rain = I(1300)) => cropOut.main = "Rice"
        /\ (cropIn.temp = I(20) /\ cropIn.rain = I(500)) => cropOut.main = "Wheat"
        /\ Matching = {} => cropOut.main = "Barley"
        /\ cropOut.alt = cropOut.main

\* a pair on a threshold that satisfies no rule, answered Barley
C8_Witness ==
    /\ cropOut.called /\ Matching = {}
    /\ cropIn.temp = I(25) /\ cropIn.rain = I(1000)
    /\ cropOut.main = "Barley"

\* C9: the rules are tried in the order Rice, Corn, Sugarcane, Wheat, Cotton,
\* Soybean and the first one that matches gives the crop.
C9_FirstRuleWins ==
    (cropOut.called /\ Matching # {}) =>
        \E i \in Matching :
            /\ \A j \in Matching : i <= j
            /\ cropOut.main = RuleOrder[i]

\* an input that satisfies the Corn and the Sugarcane rule, answered Corn
C9_Witness ==
    /\ cropOut.called
    /\ {2, 3} \subseteq Matching
    /\ cropOut.main = "Corn"

---------------------------------------------------------------------------
(* generate-dataset: the body of the record loop, both generators.  Every  *)
(* Math.random() of one iteration is a field of u, a number in [0, 1).     *)

cropTypes ==
    <<[name |-> "Wheat", minYield |-> 2000, maxYield |-> 5000],
      [name |-> "Rice", minYield |-> 3000, maxYield |-> 7000],
      [name |-> "Corn", minYield |-> 4000, maxYield |-> 9000],
      [name |-> "Cotton", minYield |-> 1000, maxYield |-> 3000],
      [name |-> "Sugarcane", minYield |-> 40000, maxYield |-> 80000],
      [name |-> "Soybean", minYield |-> 1500, maxYield |-> 4000],
      [name |-> "Barley", minYield |-> 2000, maxYield |-> 5500]>>

\* cropTypes[Math.floor(Math.random() * cropTypes.length)]
PickCrop(u) == cropTypes[RFloor(RMul(u, I(Len(cropTypes)))) + 1]

\* the five factors averaged into baseFactor
BaseFactor(temperature, rainfall, fertilizer, soil_ph, humidity) ==
    LET tempFactor == RSub(I(1), RDiv(RAbs(RSub(temperature, I(25))), I(40)))
        rainFactor == RMin(RDiv(rainfall, I(1000)), Q(15, 10))
        fertFactor == RMin(RDiv(fertilizer, I(200)), Q(13, 10))
        phFactor == RSub(I(1), RDiv(RAbs(RSub(soil_ph, Q(68, 10))), I(3)))
        humidityFactor == RMin(RDiv(humidity, I(70)), Q(12, 10))
    IN  RDiv(RAdd(RAdd(RAdd(RAdd(tempFactor, rainFactor), fertFactor), phFactor),
                  humidityFactor), I(5))

\* yieldValue with the scaled range taken off the minimum instead of added
YieldValueOldMinus(crop, baseFactor, randomVariation) ==
    RSub(I(crop.minYield),
         RMul(RMul(I(crop.maxYield - crop.minYield), baseFactor), randomVariation))

\* yieldValue of the first generator
YieldValueOld(crop, baseFactor, randomVariation) ==
    RAdd(I(crop.minYield),
         RMul(RMul(I(crop.maxYield - crop.minYield), baseFactor), randomVariation))

\* the record the first generator pushes for the draws u
GenRecordOld(u) ==
    LET crop == PickCrop(u.crop)
        temperature == RAdd(I(15), RMul(u.temperature, I(25)))
        rainfall == RAdd(I(300), RMul(u.rainfall, I(1500)))
        fertilizer == RAdd(I(50), RMul(u.fertilizer, I(250)))
        soil_ph == RAdd(Q(55, 10), RMul(u.soil_ph, Q(25, 10)))
        humidity == RAdd(I(40), RMul(u.humidity, I(50)))
        baseFactor == BaseFactor(temperature, rainfall, fertilizer, soil_ph, humidity)
        randomVariation == RAdd(Q(8, 10), RMul(u.variation, Q(4, 10)))
        yieldValue == YieldValueOld(crop, baseFactor, randomVariation)
    IN  [temperature |-> RoundHalfUp2(temperature),
         rainfall |-> RoundHalfUp2(rainfall),
         fertilizer |-> RoundHalfUp2(fertilizer),
         soil_ph |-> RoundHalfUp2(soil_ph),
         humidity |-> RoundHalfUp2(humidity),
         nitrogen |-> Null, phosphorus |-> Null, potassium |-> Null,
         temp_rainfall_interaction |-> Null, ph_fertilizer_interaction |-> Null,
         temp_squared |-> Null, npk_ratio |-> Null,
         crop |-> crop.name,
         yield |-> RoundHalfUp2(yieldValue)]

\* yieldValue of the current generator
YieldValueNew(crop, baseFactor, engineeredFactor, randomVariation) ==
    RAdd(I(crop.minYield),
         RMul(RMul(RMul(I(crop.maxYield - crop.minYield), baseFactor),
                   RAdd(I(1), engineeredFactor)), randomVariation))

\* the yield field of the current generator: Math.max(0, parseFloat(yieldValue.toFixed(2)))
YieldField(yieldValue) == RMax(I(0), ToFixed2(yieldValue))

\* the record the current generator pushes for the draws u
GenRecordNew(u) ==
    LET crop == PickCrop(u.crop)
        temperature == RAdd(I(15), RMul(u.temperature, I(25)))
        rainfall == RAdd(I(300), RMul(u.rainfall, I(1500)))
        fertilizer == RAdd(I(50), RMul(u.fertilizer, I(250)))
        soil_ph == RAdd(Q(55, 10), RMul(u.soil_ph, Q(25, 10)))
        humidity == RAdd(I(40), RMul(u.humidity, I(50)))
        nitrogen == RAdd(I(50), RMul(u.nitrogen, I(150)))
        phosphorus == RAdd(I(20), RMul(u.phosphorus, I(80)))
        potassium == RAdd(I(30), RMul(u.potassium, I(120)))
        capped_temp == RMax(I(10), RMin(I(45), temperature))
        capped_rainfall == RMax(I(100), RMin(I(2500), rainfall))
        temp_rainfall_interaction == RDiv(RMul(capped_temp, capped_rainfall), I(1000))
        ph_fertilizer_interaction == RDiv(RMul(soil_ph, fertilizer), I(100))
        temp_squared == RSq(RDiv(capped_temp, I(10)))
        npk_ratio == RDiv(nitrogen, RAdd(RAdd(phosphorus, potassium), I(1)))
        baseFactor == BaseFactor(capped_temp, capped_rainfall, fertilizer, soil_ph, humidity)
        engineeredFactor ==
            RAdd(RSub(RAdd(RMul(Q(1, 10), temp_rainfall_interaction),
                           RMul(Q(5, 100), ph_fertilizer_interaction)),
                      RMul(Q(2, 100), temp_squared)),
                 RMul(Q(3, 100), npk_ratio))
        randomVariation == RAdd(Q(8, 10), RMul(u.variation, Q(4, 10)))
        yieldValue == YieldValueNew(crop, baseFactor, engineeredFactor, randomVariation)
    IN  [temperature |-> ToFixed2(capped_temp),
         rainfall |-> ToFixed2(capped_rainfall),
         fertilizer |-> ToFixed2(fertilizer),
         soil_ph |-> ToFixed2(soil_ph),
         humidity |-> ToFixed2(humidity),
         nitrogen |-> ToFixed2(nitrogen),
         phosphorus |-> ToFixed2(phosphorus),
         potassium |-> ToFixed2(potassium),
         temp_rainfall_interaction |-> ToFixed2(temp_rainfall_interaction),
         ph_fertilizer_interaction |-> ToFixed2(ph_fertilizer_interaction),
         temp_squared |-> ToFixed2(temp_squared),
         npk_ratio |-> ToFixed2(npk_ratio),
         crop |-> crop.name,
         yield |-> YieldField(yieldValue)]

---------------------------------------------------------------------------
(* SpecGen: one iteration of the record loop for every combination of the  *)
(* draws below.                                                            *)

Generators == {"old", "new"}

\* the draw that picks the crop: one value for each of the seven crops
CropDraws == {Q(i, 7) : i \in 0..6}

\* the draws of a feature: the lowest, and one close to the upper end
FeatureDraws == {I(0), Q(4, 5)}

\* the draws of the temperature, whose factor peaks inside its range
TempDraws == {I(0), Q(2, 5), Q(4, 5)}

\* the draws of the NPK levels: nitrogen 50 or 150, phosphorus 20 or 60,
\* potassium 39 or 129
NitrogenDraws == {I(0), Q(2, 3)}

PhosphorusDraws == {I(0), Q(1, 2)}

PotassiumDraws == {Q(3, 40), Q(33, 40)}

NoDraw == I(0)

GenDrawsOld ==
    {[crop |-> c, temperature |-> t, rainfall |-> r, fertilizer |-> f, soil_ph |-> p,
      humidity |-> h, nitrogen |-> NoDraw, phosphorus |-> NoDraw, potassium |-> NoDraw,
      variation |-> v] :
        c \in CropDraws, t \in TempDraws, r \in FeatureDraws, f \in FeatureDraws,
        p \in FeatureDraws, h \in FeatureDraws, v \in FeatureDraws}

GenDrawsNew ==
    {[crop |-> c, temperature |-> t, rainfall |-> r, fertilizer |-> f, soil_ph |-> p,
      humidity |-> h, nitrogen |-> n, phosphorus |-> ph, potassium |-> k, variation |-> v] :
        c \in CropDraws, t \in TempDraws, r \in FeatureDraws, f \in FeatureDraws,
        p \in FeatureDraws, h \in FeatureDraws, n \in NitrogenDraws, ph \in PhosphorusDraws,
        k \in PotassiumDraws, v \in FeatureDraws}

GenNone == [called |-> FALSE, generator |-> "old", u |-> <<>>, record |-> <<>>]

\* one iteration of the record loop of generator g with the draws u
GenerateRecord(g, u) ==
    /\ ~genOut.called
    /\ genOut' = [called |-> TRUE, generator |-> g, u |-> u,
                  record |-> IF g = "old" THEN GenRecordOld(u) ELSE GenRecordNew(u)]
    /\ UNCHANGED <<uiVars, cnOut, flowVars, crops_dataset, storeVars, knn, lrIn, lrCalls, cropIn, cropOut>>

InitGen ==
    /\ genOut = GenNone
    /\ crops_dataset = <<>>
    /\ FlowIdle /\ KnnIdle /\ CnIdle /\ UiIdle /\ ServeIdle /\ LrIdle /\ CropIdle

NextGen ==
    \/ \E u \in GenDrawsOld : GenerateRecord("old", u)
    \/ \E u \in GenDrawsNew : GenerateRecord("new", u)

SpecGen == InitGen /\ [][NextGen]_vars

\* C10: every record the generators produce has a yield >= 0.
C10_YieldNonNegative ==
    genOut.called => (IsFinite(genOut.record.yield) /\ RLe(I(0), genOut.record.yield))

\* a Sugarcane record of the current generator with the lowest variation
C10_Witness ==
    /\ genOut.called /\ genOut.generator = "new"
    /\ genOut.record.crop = "Sugarcane"
    /\ genOut.u.variation = I(0)
    /\ RLt(I(0), genOut.record.yield)

---------------------------------------------------------------------------
(* generate-dataset: the request handler, both generators, one step per    *)
(* await.  Whether the database accepts an insert is an input of the step. *)
(* The records of one request share the draws u of their Math.random()     *)
(* calls.                                                                  *)

targetRecords == 5000

batchSize == 1000

\* the remainder of r/d after its first k decimals
RECURSIVE FracRest(_, _, _)
FracRest(r, d, k) == IF k = 0 THEN r ELSE FracRest((10 * r) % d, d, k - 1)

\* the value a DECIMAL(p, 4) column stores for the number a >= 0
StoredDecimal4(a) ==
    LET fr == a.n % a.d
        up == IF 2 * FracRest(fr, a.d, 4) >= a.d THEN 1 ELSE 0
    IN  RAdd(I(a.n \div a.d), Q(FracDigits(fr, a.d, 4) + up, 10000))

\* the records array after the record loop
Records(g, u) ==
    LET record == IF g = "old" THEN GenRecordOld(u) ELSE GenRecordNew(u)
    IN  [j \in 1..targetRecords |-> record]

\* slice with its end index taken as included
SliceInclusive(records, start, end) ==
    SubSeq(records, start + 1, Min(end + 1, Len(records)))

\* records.slice(start, end)
Slice(records, start, end) == SubSeq(records, start + 1, Min(end, Len(records)))

\* lrMetrics for the draws mu
LrMetrics(g, mu) ==
    IF g = "old"
    THEN [model_name |-> "Linear Regression",
          r2_score |-> RAdd(Q(75, 100), RMul(mu.lr_r2, Q(1, 10))),
          mae |-> RAdd(I(200), RMul(mu.lr_mae, I(150))),
          rmse |-> RAdd(I(300), RMul(mu.lr_rmse, I(200)))]
    ELSE [model_name |-> "Linear Regression",
          r2_score |-> RAdd(Q(78, 100), RMul(mu.lr_r2, Q(7, 100))),
          mae |-> RAdd(I(180), RMul(mu.lr_mae, I(100))),
          rmse |-> RAdd(I(280), RMul(mu.lr_rmse, I(150)))]

\* rfMetrics for the draws mu
RfMetrics(g, mu) ==
    IF g = "old"
    THEN [model_name |-> "Random Forest",
          r2_score |-> RAdd(Q(82, 100), RMul(mu.rf_r2, Q(1, 10))),
          mae |-> RAdd(I(150), RMul(mu.rf_mae, I(100))),
          rmse |-> RAdd(I(250), RMul(mu.rf_rmse, I(150)))]
    ELSE [model_name |-> "Random Forest",
          r2_score |-> RAdd(Q(88, 100), RMul(mu.rf_r2, Q(5, 100))),
          mae |-> RAdd(I(120), RMul(mu.rf_mae, I(80))),
          rmse |-> RAdd(I(200), RMul(mu.rf_rmse, I(100)))]

\* the row of model_metrics for the object m
MetricsRow(m) ==
    [model_name |-> m.model_name, r2_score |-> StoredDecimal4(m.r2_score),
     mae |-> StoredDecimal4(m.mae), rmse |-> StoredDecimal4(m.rmse)]

\* a storage operation the request attempted: batch number n (0 for the
\* metrics) and whether the database refused it
Op(op, n, failed) == [op |-> op, n |-> n, failed |-> failed]

---------------------------------------------------------------------------
(* SpecGenerate: up to MaxGenerations generate-dataset requests, one after *)
(* the other, on a store that starts empty.                                *)

MaxGenerations == 1

\* the draws of the records: the lowest draws with the first crop, and two
\* draws close to the upper ends with the fifth and the last crop
GenerateDraws ==
    {[crop |-> I(0), temperature |-> I(0), rainfall |-> I(0), fertilizer |-> I(0),
      soil_ph |-> I(0), humidity |-> I(0), nitrogen |-> I(0), phosphorus |-> I(0),
      potassium |-> Q(3, 40), variation |-> I(0)],
     [crop |-> Q(4, 7), temperature |-> Q(2, 5), rainfall |-> Q(4, 5),
      fertilizer |-> Q(4, 5), soil_ph |-> Q(4, 5), humidity |-> Q(4, 5),
      nitrogen |-> Q(2, 3), phosphorus |-> Q(1, 2), potassium |-> Q(33, 40),
      variation |-> Q(4, 5)],
     [crop |-> Q(6, 7), temperature |-> Q(4, 5), rainfall |-> I(0),
      fertilizer |-> Q(4, 5), soil_ph |-> I(0), humidity |-> Q(4, 5),
      nitrogen |-> I(0), phosphorus |-> Q(1, 2), potassium |-> Q(3, 40),
      variation |-> Q(4, 5)]}

\* the draws of the metrics: each r2 draw at its lowest or close to its upper end
MetricsDraws ==
    {[lr_r2 |-> a, lr_mae |-> Q(1, 2), lr_rmse |-> Q(1, 2),
      rf_r2 |-> b, rf_mae |-> Q(1, 2), rf_rmse |-> Q(1, 2)] :
        a \in {I(0), Q(9, 10)}, b \in {I(0), Q(9, 10)}}

\* a request arrives: an OPTIONS request is answered at once, any other
\* builds its records and goes on to insert the first batch
GenerateRequest(g, method, u) ==
    /\ gen.pc \in {"idle", "done"}
    /\ gen.requests < MaxGenerations
    /\ gen' = IF method = "OPTIONS"
              THEN [GenerationNone EXCEPT !.pc = "done", !.requests = gen.requests + 1,
                                          !.generator = g, !.method = method,
                                          !.rowsBefore = Len(crops_dataset),
                                          !.metricsBefore = Len(model_metrics),
                                          !.status = 200]
              ELSE [GenerationNone EXCEPT !.pc = "insert", !.requests = gen.requests + 1,
                                          !.generator = g, !.method = method, !.u = u,
                                          !.rowsBefore = Len(crops_dataset),
                                          !.metricsBefore = Len(model_metrics)]
    /\ UNCHANGED <<uiVars, cnOut, crops_dataset, storeVars, py, knn, lrIn, lrCalls, cropIn, cropOut, genOut>>

\* the batch loop with a refused insert tried again instead of thrown
InsertBatchRetried(failed) ==
    /\ gen.pc = "insert"
    /\ crops_dataset' =
           IF failed THEN crops_dataset
           ELSE crops_dataset \o Slice(Records(gen.generator, gen.u), gen.i,
                                       gen.i + batchSize)
    /\ gen' = IF failed
              THEN [gen EXCEPT !.ops = Append(@, Op("dataset insert",
                                                    gen.i \div batchSize + 1, TRUE))]
              ELSE [gen EXCEPT !.i = gen.i + batchSize,
                               !.pc = IF gen.i + batchSize < targetRecords
                                      THEN "insert" ELSE "metrics",
                               !.ops = Append(@, Op("dataset insert",
                                                    gen.i \div batchSize + 1, FALSE))]
    /\ UNCHANGED <<uiVars, cnOut, storeVars, py, knn, lrIn, lrCalls, cropIn, cropOut, genOut>>

\* one turn of the batch loop: the insert of records.slice(i, i + batchSize)
InsertBatch(failed) ==
    /\ gen.pc = "insert"
    /\ crops_dataset' =
           IF failed THEN crops_dataset
           ELSE crops_dataset \o Slice(Records(gen.generator, gen.u), gen.i,
                                       gen.i + batchSize)
    /\ gen' = IF failed
              THEN [gen EXCEPT !.pc = "done", !.status = 500, !.error = TRUE,
                               !.ops = Append(@, Op("dataset insert",
                                                    gen.i \div batchSize + 1, TRUE))]
              ELSE [gen EXCEPT !.i = gen.i + batchSize,
                               !.pc = IF gen.i + batchSize < targetRecords
                                      THEN "insert" ELSE "metrics",
                               !.ops = Append(@, Op("dataset insert",
                                                    gen.i \div batchSize + 1, FALSE))]
    /\ UNCHANGED <<uiVars, cnOut, storeVars, py, knn, lrIn, lrCalls, cropIn, cropOut, genOut>>

\* the metrics are drawn and inserted, and the response is sent
InsertMetrics(mu, failed) ==
    /\ gen.pc = "metrics"
    /\ model_metrics' =
           IF failed THEN model_metrics
           ELSE model_metrics \o <<MetricsRow(LrMetrics(gen.generator, mu)),
                                   MetricsRow(RfMetrics(gen.generator, mu))>>
    /\ gen' = [gen EXCEPT !.pc = "done", !.mu = mu, !.status = 200, !.success = TRUE,
                          !.records_created = targetRecords,
                          !.lr_metrics = LrMetrics(gen.generator, mu),
                          !.rf_metrics = RfMetrics(gen.generator, mu),
                          !.ops = Append(@, Op("metrics insert", 0, failed))]
    /\ UNCHANGED <<uiVars, cnOut, crops_dataset, predictions, serve, py, knn, lrIn, lrCalls, cropIn,
                   cropOut, genOut>>

InitGenerate ==
    /\ crops_dataset = <<>>
    /\ FlowIdle /\ KnnIdle /\ CnIdle /\ UiIdle /\ ServeIdle /\ LrIdle /\ CropIdle /\ GenIdle

NextGenerate ==
    \/ \E g \in Generators, method \in Methods, u \in GenerateDraws :
           GenerateRequest(g, method, u)
    \/ \E failed \in BOOLEAN : InsertBatch(failed)
    \/ \E mu \in MetricsDraws, failed \in BOOLEAN : InsertMetrics(mu, failed)

SpecGenerate == InitGenerate /\ [][NextGenerate]_vars

\* the request in progress was answered
GenerationAnswered == gen.pc = "done" /\ gen.method = "POST"

\* C11 (generate-dataset): a request one of whose storage operations failed
\* is answered with status 500 and an error message, never with success.
C11_StorageFailureGives500 ==
    (GenerationAnswered /\ \E k \in 1..Len(gen.ops) : gen.ops[k].failed)
        => (gen.status = 500 /\ gen.error /\ ~gen.success)

\* the rows the request has added to the dataset so far
RowsAdded == SubSeq(crops_dataset, gen.rowsBefore + 1, Len(crops_dataset))

\* C12: the k-th storage operation of a generation request is the insert of
\* batch k (each batch at most once, in order); after a refused batch insert
\* nothing more is attempted, the response is 500, and the batches inserted
\* before it are still in the dataset.
C12_FailedBatchStopsRequest ==
    gen.method = "POST" =>
        \A k \in 1..Len(gen.ops) :
            /\ gen.ops[k].op = "dataset insert" => gen.ops[k].n = k
            /\ gen.ops[k].op = "metrics insert" => k = targetRecords \div batchSize + 1
            /\ (gen.ops[k].op = "dataset insert" /\ gen.ops[k].failed) =>
                   /\ k = Len(gen.ops)
                   /\ gen.pc = "done" /\ gen.status = 500 /\ gen.error
                   /\ Len(model_metrics) = gen.metricsBefore
                   /\ RowsAdded = SubSeq(Records(gen.generator, gen.u), 1,
                                         (k - 1) * batchSize)

\* the insert of the third batch was refused after two batches were inserted
C12_Witness ==
    /\ GenerationAnswered /\ gen.status = 500
    /\ Len(gen.ops) = 3 /\ gen.ops[3].failed
    /\ Len(crops_dataset) = gen.rowsBefore + 2 * batchSize

\* every storage operation of the answered request was accepted
AllAccepted == \A k \in 1..Len(gen.ops) : ~gen.ops[k].failed

---------------------------------------------------------------------------
(* predict-yield, one step per await: the body is read, the dataset is     *)
(* selected, the metrics are selected, the prediction is inserted and the  *)
(* response is sent.  Requests run concurrently, each in its own call of   *)
(* the handler.                                                            *)

\* a request that has not arrived yet
PyNone ==
    [pc |-> "idle", metrics |-> <<>>, ops |-> <<>>, stored |-> FALSE, row |-> <<>>]
        @@ ServeNone

\* the try block of version v after both selects
Predict(v, body, fetched, metrics, insertRejected) ==
    IF v = "five"
    THEN Predict5(body, fetched, metrics, insertRejected)
    ELSE PredictNPK(body, fetched, metrics, insertRejected)

\* the request after its arrival and await req.json()
PyArrived(v, method, parses, body) ==
    IF method = "OPTIONS"
    THEN [pc |-> "done"] @@ Request(v, method, parses, NoBody) @@ Preflight @@ PyNone
    ELSE IF ~parses
    THEN [pc |-> "done", ops |-> <<Op("body", 0, TRUE)>>]
             @@ Request(v, method, parses, NoBody) @@ ServerError(NullData) @@ PyNone
    ELSE [pc |-> "fetch", ops |-> <<Op("body", 0, FALSE)>>]
             @@ Request(v, method, parses, body) @@ PyNone

\* the request q after the dataset select
PyFetched(q, fetch) ==
    IF fetch = "error"
    THEN [pc |-> "done", ops |-> Append(q.ops, Op("dataset fetch", 0, TRUE))]
             @@ ServerError(NullData) @@ q
    ELSE [pc |-> "metrics", ops |-> Append(q.ops, Op("dataset fetch", 0, FALSE)),
          fetched |-> IF fetch = "null" THEN NullData
                      ELSE Rows(Limit(crops_dataset,
                                      IF q.version = "five" THEN FetchLimit5
                                      ELSE FetchLimitNPK))] @@ q

\* the request q after the metrics select
PyMetricsRead(q, metricsFetch) ==
    [pc |-> "insert",
     ops |-> Append(q.ops, Op("metrics fetch", 0, metricsFetch = "error")),
     metrics |-> IF metricsFetch = "error" THEN <<>> ELSE LatestTwo(model_metrics)] @@ q

\* the insert awaited without a look at its error
PyInsertedUnchecked(q, insertRejected) ==
    LET out == Predict(q.version, q.body, q.fetched, q.metrics, insertRejected)
        sent == Predict(q.version, q.body, q.fetched, q.metrics, FALSE)
    IN  [pc |-> "done", stored |-> out.stored, row |-> out.row,
         ops |-> Append(q.ops, Op("prediction insert", 0, ~out.stored))]
            @@ sent.response @@ q

\* a handler that counts the predictions made so far into its estimate
PyInsertedCounting(q, insertRejected) ==
    LET out == Predict(q.version, q.body, q.fetched, q.metrics, insertRejected)
    IN  [pc |-> "done", stored |-> out.stored, row |-> out.row,
         ops |-> Append(q.ops, Op("prediction insert", 0, ~out.stored)),
         predicted_yield_lr |->
             IF out.stored
             THEN RAdd(out.response.predicted_yield_lr, I(Len(predictions)))
             ELSE out.response.predicted_yield_lr]
            @@ out.response @@ q

\* the request q after the insert of its prediction
PyInserted(q, insertRejected) ==
    LET out == Predict(q.version, q.body, q.fetched, q.metrics, insertRejected)
    IN  [pc |-> "done", stored |-> out.stored, row |-> out.row,
         ops |-> Append(q.ops, Op("prediction insert", 0, ~out.stored))]
            @@ out.response @@ q

---------------------------------------------------------------------------
(* SpecFlow: two predict-yield requests to the deployed version of the     *)
(* function, interleaved at their awaits, on a store that starts empty and *)
(* that generate-dataset requests running                                  *)
(* beside them write to: a batch of dataset rows (here one row, up to      *)
(* MaxFlowRows rows in all) or the pair of metrics rows (up to             *)
(* MaxFlowMetrics pairs).                                                  *)

MaxFlowRows == 1

MaxFlowMetrics == 1

Requests == {1, 2}

\* the bodies of SpecFlow: the features of dataset row A; a temperature and
\* a rainfall above the caps; the same with the temperature of the cap
FlowBodies ==
    {b \in ServeBodies :
        /\ b.temperature \in {I(25), I(45), I(50)}
        /\ b.humidity = I(60) /\ b.nitrogen # Undefined}

\* the draws of the metrics in SpecFlow, of the first generator: one with the
\* Linear Regression r2 above the Random Forest r2 (0.84 and 0.82), one below
FlowMetricsDraws == {mu \in MetricsDraws : mu.rf_r2 = I(0)}

\* the version deployed is the version of every request that has arrived
Deployed(v) == \A r \in Requests : py[r].pc # "idle" => py[r].version = v

\* the outcomes of the dataset select in SpecFlow
FlowFetchOutcomes == {"error", "rows"}

PyArrive(r, v, method, parses, body) ==
    /\ py[r].pc = "idle"
    /\ Deployed(v)
    /\ py' = [py EXCEPT ![r] = PyArrived(v, method, parses, body)]
    /\ UNCHANGED <<uiVars, cnOut, crops_dataset, storeVars, gen, knn, lrIn, lrCalls, cropIn, cropOut, genOut>>

PyFetch(r, fetch) ==
    /\ py[r].pc = "fetch"
    /\ py' = [py EXCEPT ![r] = PyFetched(py[r], fetch)]
    /\ UNCHANGED <<uiVars, cnOut, crops_dataset, storeVars, gen, knn, lrIn, lrCalls, cropIn, cropOut, genOut>>

PyMetrics(r, metricsFetch) ==
    /\ py[r].pc = "metrics"
    /\ py' = [py EXCEPT ![r] = PyMetricsRead(py[r], metricsFetch)]
    /\ UNCHANGED <<uiVars, cnOut, crops_dataset, storeVars, gen, knn, lrIn, lrCalls, cropIn, cropOut, genOut>>

PyInsert(r, insertRejected) ==
    /\ py[r].pc = "insert"
    /\ py' = [py EXCEPT ![r] = PyInserted(py[r], insertRejected)]
    /\ predictions' = IF py'[r].stored THEN Append(predictions, py'[r].row)
                      ELSE predictions
    /\ UNCHANGED <<uiVars, cnOut, crops_dataset, model_metrics, serve, gen, knn, lrIn, lrCalls, cropIn,
                   cropOut, genOut>>

\* a generate-dataset request running beside the predictions inserts rows
DatasetInserted(row) ==
    /\ Len(crops_dataset) < MaxFlowRows
    /\ crops_dataset' = Append(crops_dataset, row)
    /\ UNCHANGED <<uiVars, cnOut, storeVars, flowVars, knn, lrIn, lrCalls, cropIn, cropOut, genOut>>

\* a generate-dataset request running beside the predictions inserts its metrics
MetricsInserted(g, mu) ==
    /\ Len(model_metrics) < 2 * MaxFlowMetrics
    /\ model_metrics' = model_metrics \o <<MetricsRow(LrMetrics(g, mu)),
                                          MetricsRow(RfMetrics(g, mu))>>
    /\ UNCHANGED <<uiVars, cnOut, crops_dataset, predictions, serve, flowVars, knn, lrIn, lrCalls,
                   cropIn, cropOut, genOut>>

InitFlow ==
    /\ crops_dataset = <<>>
    /\ gen = GenerationNone
    /\ py = [r \in Requests |-> PyNone]
    /\ KnnIdle /\ CnIdle /\ UiIdle /\ ServeIdle /\ LrIdle /\ CropIdle /\ GenIdle

NextFlow ==
    \/ \E r \in Requests, v \in Versions, method \in Methods, parses \in BOOLEAN,
          body \in FlowBodies : PyArrive(r, v, method, parses, body)
    \/ \E r \in Requests, fetch \in FlowFetchOutcomes : PyFetch(r, fetch)
    \/ \E r \in Requests, metricsFetch \in MetricsOutcomes : PyMetrics(r, metricsFetch)
    \/ \E r \in Requests, insertRejected \in BOOLEAN : PyInsert(r, insertRejected)
    \/ DatasetInserted(KnnRowA)
    \/ \E mu \in FlowMetricsDraws : MetricsInserted("old", mu)

SpecFlow == InitFlow /\ [][NextFlow]_vars

\* request r was answered (other than a preflight)
Answered(r) == py[r].pc = "done" /\ py[r].method = "POST"

\* request r attempted the storage operation op / saw it fail
Attempted(r, op) == \E k \in 1..Len(py[r].ops) : py[r].ops[k].op = op

Failed(r, op) ==
    \E k \in 1..Len(py[r].ops) : py[r].ops[k].op = op /\ py[r].ops[k].failed

\* the response to request r carries estimates
HasEstimates(r) ==
    py[r].predicted_yield_lr # Undefined \/ py[r].predicted_yield_rf # Undefined

\* the requests whose prediction was stored
StoredRequests == {r \in Requests : py[r].stored}

\* C14: a predict-yield request answered with success (or with estimates) has
\* its prediction row in table predictions; a request whose dataset fetch
\* failed attempted no prediction insert and stored nothing; a request whose
\* prediction insert failed is answered 500 without estimates; the table
\* holds one row for each stored request and nothing else.
C14_ResponseAfterInsert ==
    /\ \A r \in Requests :
           /\ (py[r].pc # "done" /\ py[r].pc # "idle") => py[r].status = 0
           /\ (Answered(r) /\ (py[r].status = 200 \/ HasEstimates(r))) =>
                  /\ py[r].status = 200 /\ py[r].stored
                  /\ py[r].ops[Len(py[r].ops)] = Op("prediction insert", 0, FALSE)
                  /\ \E k \in 1..Len(predictions) : predictions[k] = py[r].row
           /\ Failed(r, "dataset fetch") =>
                  /\ ~Attempted(r, "prediction insert") /\ ~py[r].stored
                  /\ py[r].status = 500
           /\ Failed(r, "prediction insert") =>
                  /\ py[r].status = 500 /\ py[r].error /\ ~HasEstimates(r)
                  /\ ~py[r].stored
    /\ Len(predictions) = Cardinality(StoredRequests)

\* one request answered with its prediction stored, the other answered 500
\* after its prediction insert failed
C14_Witness ==
    /\ Answered(1) /\ py[1].status = 200 /\ py[1].stored
    /\ Answered(2) /\ Failed(2, "prediction insert") /\ py[2].status = 500
    /\ Len(predictions) = 1 /\ predictions[1] = py[1].row

\* requests a and b were answered with predictions by the same version, for
\* equal bodies, after reading the same dataset rows and the same metrics rows
SameInputs(a, b) ==
    /\ Answered(a) /\ py[a].status = 200
    /\ Answered(b) /\ py[b].status = 200
    /\ py[a].version = py[b].version
    /\ py[a].body = py[b].body
    /\ py[a].fetched = py[b].fetched
    /\ py[a].metrics = py[b].metrics

\* the responses to a and b are equal
SameResponse(a, b) ==
    /\ py[a].predicted_yield_lr = py[b].predicted_yield_lr
    /\ py[a].predicted_yield_rf = py[b].predicted_yield_rf
    /\ py[a].predicted_crop = py[b].predicted_crop
    /\ py[a].best_model = py[b].best_model
    /\ py[a].lr_metrics = py[b].lr_metrics
    /\ py[a].rf_metrics = py[b].rf_metrics
    /\ py[a].feature_importances = py[b].feature_importances

---------------------------------------------------------------------------
(* The cn utility (src/lib/utils.ts), as its tests call it: the arguments  *)
(* go through clsx and the result through twMerge. A string argument is    *)
(* the sequence of the class names it holds, '' the empty sequence; the    *)
(* string cn returns is built from the class names with single spaces.     *)

\* the values the tests pass to cn
Str(classes) == [type |-> "string", classes |-> classes, num |-> 0, bool |-> FALSE]

NullValue == [type |-> "null", classes |-> <<>>, num |-> 0, bool |-> FALSE]

UndefinedValue == [type |-> "undefined", classes |-> <<>>, num |-> 0, bool |-> FALSE]

Bool(b) == [type |-> "boolean", classes |-> <<>>, num |-> 0, bool |-> b]

Num(n) == [type |-> "number", classes |-> <<>>, num |-> n, bool |-> FALSE]

\* cond && x, for a boolean cond
AndAlso(cond, x) == IF cond THEN x ELSE Bool(FALSE)

\* a clsx that keeps the number 0 as the class name '0'
toValKeepsZero(mix) ==
    IF mix.type = "string" THEN mix.classes
    ELSE IF mix.type = "number" THEN <<ToString(mix.num)>>
    ELSE <<>>

\* the class names one argument contributes: those of a non-empty string,
\* the digits of a number other than 0, nothing for null, undefined and
\* booleans
toVal(mix) ==
    IF mix.type = "string" THEN mix.classes
    ELSE IF mix.type = "number" /\ mix.num # 0 THEN <<ToString(mix.num)>>
    ELSE <<>>

RECURSIVE clsxTo(_, _)
clsxTo(inputs, i) ==
    IF i = 0 THEN <<>> ELSE clsxTo(inputs, i - 1) \o toVal(inputs[i])

\* clsx(inputs), as the sequence of its class names
clsx(inputs) == clsxTo(inputs, Len(inputs))

\* the Tailwind class group of the class names of the tests that have one
ClassGroup(c) ==
    CASE c \in {"p-4", "p-2"} -> "p"
      [] c \in {"bg-red-500", "bg-blue-500"} -> "bg-color"
      [] c = "m-4" -> "m"
      [] c = "mx-2" -> "mx"
      [] OTHER -> ""

\* a later class name overrides an earlier one of its group, and m-4 an
\* earlier mx-2
Overrides(later, earlier) ==
    /\ ClassGroup(later) # ""
    /\ \/ ClassGroup(later) = ClassGroup(earlier)
       \/ ClassGroup(later) = "m" /\ ClassGroup(earlier) = "mx"

RECURSIVE twMergeFrom(_, _)
twMergeFrom(classes, i) ==
    IF i > Len(classes) THEN <<>>
    ELSE (IF \E j \in (i + 1)..Len(classes) : Overrides(classes[j], classes[i])
          THEN <<>> ELSE <<classes[i]>>) \o twMergeFrom(classes, i + 1)

\* twMerge, on the sequence of class names
twMerge(classes) == twMergeFrom(classes, 1)

RECURSIVE JoinTo(_, _)
JoinTo(classes, i) ==
    IF i = 0 THEN ""
    ELSE IF i = 1 THEN classes[1]
    ELSE JoinTo(classes, i - 1) \o " " \o classes[i]

\* the class names as one string
Join(classes) == JoinTo(classes, Len(classes))

\* cn(...inputs)
cn(inputs) == Join(twMerge(clsx(inputs)))

---------------------------------------------------------------------------
(* SpecCn: calls of cn with up to MaxCnArgs arguments, and with the        *)
(* argument lists of the tests.                                            *)

MaxCnArgs == 3

CnValues ==
    {Str(<<"base">>), Str(<<"extra">>), Str(<<"px-4", "py-2">>), Str(<<>>),
     NullValue, UndefinedValue, Bool(FALSE), Num(0), Str(<<"p-4">>), Str(<<"p-2">>)}

\* cn('base', null, undefined, false, 0, '', 'another')
TestFalsy ==
    <<Str(<<"base">>), NullValue, UndefinedValue, Bool(FALSE), Num(0), Str(<<>>),
      Str(<<"another">>)>>

\* cn('px-4 py-2 rounded', error ? '...' : '...', 'hover:opacity-80') with
\* error = true
TestComplex ==
    <<Str(<<"px-4", "py-2", "rounded">>),
      Str(<<"bg-red-100", "text-red-800", "border", "border-red-400">>),
      Str(<<"hover:opacity-80">>)>>

\* the argument lists of the tests
TestCalls ==
    {<<Str(<<"bg-red-500">>), Str(<<"text-white">>), Str(<<"p-4">>)>>,
     <<Str(<<"base">>), AndAlso(TRUE, Str(<<"active">>)),
       AndAlso(FALSE, Str(<<"disabled">>)), Str(<<"extra">>)>>,
     <<Str(<<"base">>), AndAlso(~TRUE, Str(<<"inactive">>)),
       AndAlso(~FALSE, Str(<<"enabled">>)), Str(<<"extra">>)>>,
     <<Str(<<"p-4">>), Str(<<"p-2">>)>>,
     <<Str(<<"bg-red-500">>), Str(<<"text-lg">>), Str(<<"bg-blue-500">>)>>,
     <<Str(<<"m-4">>), Str(<<"mx-2">>)>>,
     <<Str(<<"mx-2">>), Str(<<"m-4">>)>>,
     TestFalsy, TestComplex}

CnArgLists == UNION {[1..n -> CnValues] : n \in 0..MaxCnArgs} \cup TestCalls

\* cn(...inputs); classes are the class names of the string returned
CallCn(inputs) ==
    /\ ~cnOut.called
    /\ cnOut' = [called |-> TRUE, inputs |-> inputs, at |-> 0, cond |-> FALSE,
                 classes |-> twMerge(clsx(inputs)), out |-> cn(inputs)]
    /\ UNCHANGED <<uiVars, crops_dataset, storeVars, flowVars, knn, lrIn, lrCalls, cropIn,
                   cropOut, genOut>>

\* cn(...before, cond && 'active', ...after)
CallCnConditional(before, cond, after) ==
    /\ ~cnOut.called
    /\ cnOut' = [called |-> TRUE,
                 inputs |-> before \o <<AndAlso(cond, Str(<<"active">>))>> \o after,
                 at |-> Len(before) + 1, cond |-> cond,
                 classes |->
                     twMerge(clsx(before \o <<AndAlso(cond, Str(<<"active">>))>> \o after)),
                 out |-> cn(before \o <<AndAlso(cond, Str(<<"active">>))>> \o after)]
    /\ UNCHANGED <<uiVars, crops_dataset, storeVars, flowVars, knn, lrIn, lrCalls, cropIn,
                   cropOut, genOut>>

InitCn ==
    /\ crops_dataset = <<>>
    /\ FlowIdle /\ KnnIdle /\ CnIdle /\ UiIdle /\ ServeIdle /\ LrIdle /\ CropIdle /\ GenIdle

NextCn ==
    \/ \E inputs \in CnArgLists : CallCn(inputs)
    \/ \E before, after \in UNION {[1..n -> CnValues] : n \in 0..1}, cond \in BOOLEAN :
           CallCnConditional(before, cond, after)

SpecCn == InitCn /\ [][NextCn]_vars

\* null, undefined, false, 0 and ''
FalsyValue(a) ==
    a \in {NullValue, UndefinedValue, Bool(FALSE), Num(0), Str(<<>>)}

\* the class names of the arguments of the call that are not falsy, in
\* argument order
RECURSIVE RemainingTo(_, _)
RemainingTo(inputs, i) ==
    IF i = 0 THEN <<>>
    ELSE RemainingTo(inputs, i - 1) \o
             (IF FalsyValue(inputs[i]) THEN <<>> ELSE inputs[i].classes)

Remaining == RemainingTo(cnOut.inputs, Len(cnOut.inputs))

\* no two of the remaining class names conflict
NoConflict ==
    \A i, j \in 1..Len(Remaining) : i < j => ~Overrides(Remaining[j], Remaining[i])

\* C18: cn drops every falsy argument and returns the remaining class names
\* in argument order joined by single spaces when no two of them conflict
\* (so cn('base', null, undefined, false, 0, '', 'another') is
\* 'base another'); a conditional argument cond && 'active' contributes
\* 'active' exactly when cond is true.
C18_FalsyDroppedAndJoined ==
    cnOut.called =>
        /\ NoConflict => (cnOut.classes = Remaining /\ cnOut.out = Join(Remaining))
        /\ cnOut.inputs = TestFalsy => cnOut.out = "base another"
        /\ cnOut.inputs = TestComplex =>
               cnOut.out = "px-4 py-2 rounded bg-red-100 text-red-800 border border-red-400 hover:opacity-80"
        /\ cnOut.at # 0 =>
               (cnOut.cond <=>
                    \E k \in 1..Len(cnOut.classes) : cnOut.classes[k] = "active")

\* the call of the test with every falsy value, answered 'base another'
C18_Witness ==
    /\ cnOut.called /\ cnOut.inputs = TestFalsy /\ NoConflict
    /\ cnOut.out = "base another"

\* Math.max(lo, Math.min(hi, x)) as the claim states it
Clamped(x, lo, hi) == IF RLt(x, lo) THEN lo ELSE IF RLt(hi, x) THEN hi ELSE x

\* request r was answered with a prediction by the NPK version
AnsweredNPK(r) == Answered(r) /\ py[r].status = 200 /\ py[r].version = "npk"

\* the bodies of a and b differ at most in temperature and rainfall, and
\* these have the same clamped values
SameClamped(a, b) ==
    /\ \A f \in BodyFields("npk") \ {"temperature", "rainfall"} :
           py[a].body[f] = py[b].body[f]
    /\ Clamped(py[a].body.temperature, I(10), I(45))
           = Clamped(py[b].body.temperature, I(10), I(45))
    /\ Clamped(py[a].body.rainfall, I(100), I(2500))
           = Clamped(py[b].body.rainfall, I(100), I(2500))

\* C20: in the NPK version two requests whose bodies differ only in
\* temperature and rainfall values with the same clamped values (temperature
\* to [10, 45], rainfall to [100, 2500]) get equal estimates and an equal
\* crop against the same dataset rows; with temperature 50 or 45 and
\* rainfall 3000 the linear estimate is that of 45 and 2500 (12006.88), and
\* with temperature 25 and rainfall 1000, inside the ranges, it is that of
\* 25 and 1000 (7781.54).
C20_ClampedFeatures ==
    /\ \A a, b \in Requests :
           (AnsweredNPK(a) /\ AnsweredNPK(b) /\ SameClamped(a, b)
                /\ py[a].fetched = py[b].fetched) =>
               /\ py[a].predicted_yield_lr = py[b].predicted_yield_lr
               /\ py[a].predicted_yield_rf = py[b].predicted_yield_rf
               /\ py[a].predicted_crop = py[b].predicted_crop
    /\ \A a \in Requests :
           AnsweredNPK(a) =>
               /\ py[a].body.rainfall = I(3000) =>
                      /\ py[a].predicted_yield_lr = Q(1200688, 100)
                      /\ py[a].predicted_crop = "Rice"
               /\ py[a].body.rainfall = I(1000) =>
                      /\ py[a].predicted_yield_lr = Q(778154, 100)
                      /\ py[a].predicted_crop = "Barley"

\* temperature 50 and temperature 45, both with rainfall 3000, answered with
\* equal estimates against the same dataset row
C20_Witness ==
    /\ AnsweredNPK(1) /\ AnsweredNPK(2) /\ SameClamped(1, 2)
    /\ py[1].body.temperature = I(50) /\ py[2].body.temperature = I(45)
    /\ py[1].fetched = py[2].fetched /\ Len(py[1].fetched.rows) = 1
    /\ py[1].predicted_yield_lr = py[2].predicted_yield_lr
    /\ py[1].predicted_yield_rf = py[2].predicted_yield_rf

---------------------------------------------------------------------------
(* The range of the nearest-neighbour estimate, under SpecKnn.             *)

\* the yields of the neighbours the last call selected
NearestYields == {knn.steps.nearest[i].yield : i \in 1..Len(knn.steps.nearest)}

\* C28: for every non-empty historical set the estimate lies between the
\* smallest and the largest yield among the selected nearest records
\* (inclusive), and with a single historical record it is that record's yield.
C28_EstimateWithinNearestYields ==
    KnnRan =>
        /\ \E lo \in NearestYields : RLe(lo, knn.estimate)
        /\ \E hi \in NearestYields : RLe(knn.estimate, hi)
        /\ KnnN = 1 => knn.estimate = crops_dataset[1].yield

\* a call whose neighbours carry both yields at different distances, with an
\* estimate strictly between the two
C28_Witness ==
    /\ KnnRan /\ NearestYields = {KnnRowA.yield, KnnRowB.yield}
    /\ RLt(KnnRowB.yield, knn.estimate) /\ RLt(knn.estimate, KnnRowA.yield)
    /\ \E i, j \in 1..Len(knn.steps.nearest) :
           RLt(knn.steps.nearest[i].distance, knn.steps.nearest[j].distance)

---------------------------------------------------------------------------
(* Requests without the nutrient fields, under SpecServe.                  *)

\* the body with the three nutrient values sent as 0
WithZeroNutrients(body) ==
    [body EXCEPT !.nitrogen = I(0), !.phosphorus = I(0), !.potassium = I(0)]

\* a POST request whose body left out the three nutrient fields reached the
\* estimators, and the store refused nothing
OmittedNutrients ==
    /\ serve.called /\ serve.method = "POST" /\ serve.parses
    /\ serve.body.nitrogen = Undefined /\ serve.body.phosphorus = Undefined
    /\ serve.body.potassium = Undefined
    /\ serve.refused = {}

\* what the handler answers to the same request with the three values 0
AnswerWithZeros ==
    Handle(serve.version, "POST", TRUE, WithZeroNutrients(serve.body),
           IF serve.fetched.null THEN "null" ELSE "rows", "rows", FALSE).response

\* C29: a request that omits nitrogen, phosphorus and potassium yields the
\* same linear estimate, nearest-neighbour estimate and crop as the same
\* request with the three values sent as 0, and the linear estimate is a
\* number that is at least 500.
C29_OmittedNutrientsAsZero ==
    OmittedNutrients =>
        /\ serve.status = AnswerWithZeros.status
        /\ serve.predicted_yield_lr = AnswerWithZeros.predicted_yield_lr
        /\ serve.predicted_yield_rf = AnswerWithZeros.predicted_yield_rf
        /\ serve.predicted_crop = AnswerWithZeros.predicted_crop
        /\ IsFinite(serve.predicted_yield_lr)
        /\ RLe(I(500), serve.predicted_yield_lr)

\* the same statement of the five-feature version alone, which never reads
\* the nutrient fields
C29_FiveFeatureVersion == serve.version = "five" => C29_OmittedNutrientsAsZero

---------------------------------------------------------------------------
(* SpecTrained: generate-dataset requests as in SpecGenerate and, beside   *)
(* them, predict-yield requests on the same store.                         *)

\* the outcomes of the dataset select in SpecTrained: once the generation
\* has inserted its batches the select is answered with an error or with
\* null data, so that the estimator falls back (the label does not read the
\* dataset)
TrainedFetchOutcomes ==
    IF Len(crops_dataset) = 0 THEN FetchOutcomes ELSE {"error", "null"}

NextTrained ==
    \/ NextGenerate
    \/ \E v \in Versions, method \in Methods, parses \in BOOLEAN :
        \E body \in IF ReadsStore(method, parses) THEN FlowBodies ELSE {NoBody},
           fetch \in IF ReadsStore(method, parses) THEN TrainedFetchOutcomes ELSE {"rows"},
           metricsFetch \in IF ReadsStore(method, parses) THEN MetricsOutcomes ELSE {"rows"},
           insertRejected \in IF ReadsStore(method, parses) THEN BOOLEAN ELSE {FALSE} :
            PredictYield(v, method, parses, body, fetch, metricsFetch, insertRejected)

SpecTrained == InitGenerate /\ [][NextTrained]_vars

\* the two latest rows of model_metrics are the rows the answered request of
\* the current generator stored
CurrentMetricsLatest ==
    /\ GenerationAnswered /\ gen.status = 200 /\ gen.generator = "new"
    /\ AllAccepted
    /\ Len(model_metrics) >= 2
    /\ LatestTwo(model_metrics) =
           <<MetricsRow(gen.rf_metrics), MetricsRow(gen.lr_metrics)>>

\* the last predict-yield request was answered with a prediction
ServedPrediction == serve.called /\ serve.method = "POST" /\ serve.status = 200

\* the scores the current generator draws lie in [0.78, 0.85) and [0.88, 0.93)
GeneratedScoresInRange ==
    /\ RLe(Q(78, 100), gen.lr_metrics.r2_score)
    /\ RLt(gen.lr_metrics.r2_score, Q(85, 100))
    /\ RLe(Q(88, 100), gen.rf_metrics.r2_score)
    /\ RLt(gen.rf_metrics.r2_score, Q(93, 100))

\* a predict-yield request is answered with a prediction in this step
Serves == serve' # serve /\ serve'.method = "POST" /\ serve'.status = 200

\* C30: after a successful generation by the current generator, as long as
\* its two metrics rows are the two latest rows of model_metrics, every
\* predict-yield request labels best_model "Random Forest"; the generated
\* scores lie in [0.78, 0.85) and [0.88, 0.93).
C30_CurrentGeneratorPicksRandomForest ==
    /\ [](CurrentMetricsLatest => GeneratedScoresInRange)
    /\ [][(CurrentMetricsLatest /\ Serves) => serve'.best_model = "Random Forest"]_vars

\* the same for the requests whose metrics select was answered
C30_WhenMetricsRead ==
    /\ [](CurrentMetricsLatest => GeneratedScoresInRange)
    /\ [][(CurrentMetricsLatest /\ Serves /\ "metrics fetch" \notin serve'.refused)
            => serve'.best_model = "Random Forest"]_vars

\* a prediction served after the current generator stored its metrics
C30_Served ==
    /\ CurrentMetricsLatest /\ ServedPrediction
    /\ serve.rf_metrics = MetricsRow(gen.rf_metrics)
    /\ serve.best_model = "Random Forest"

---------------------------------------------------------------------------
(* The page (src/pages/Index.tsx) with PredictionForm (part_003) and       *)
(* PredictionResults mounted in it. A handler runs from its call to its    *)
(* await and from the answer to its end; the requests in flight are kept   *)
(* in page.submits, page.generations and page.fetches.                     *)

\* z.coerce.number(...).min(lo).max(hi) accepts a
InRange(a, lo, hi) == a.d > 0 /\ RLe(I(lo), a) /\ RLe(a, I(hi))

\* z.coerce.number(...).min(0) accepts a
AtLeastZero(a) == a.d > 0 /\ RLe(I(0), a)

\* the schema of a nutrient input: a number >= 0, or nothing
NutrientValid(a) == a \in {Empty, Null, Undefined} \/ AtLeastZero(a)

\* form.formState.isValid under predictionFormSchema
isValid(values) ==
    /\ values.crop # ""
    /\ InRange(values.temperature, -50, 60)
    /\ AtLeastZero(values.rainfall)
    /\ AtLeastZero(values.fertilizer)
    /\ InRange(values.soil_ph, 0, 14)
    /\ InRange(values.humidity, 0, 100)
    /\ NutrientValid(values.nitrogen) /\ NutrientValid(values.phosphorus)
    /\ NutrientValid(values.potassium)

\* Number(x) || 0
NumberOrZero(x) ==
    IF x \in {Empty, Null, Undefined} THEN I(0)
    ELSE IF Truthy(x) /\ ~IsNaN(x) THEN x ELSE I(0)

\* payload of onSubmit
Payload(values) ==
    [crop |-> values.crop, temperature |-> values.temperature,
     rainfall |-> values.rainfall, fertilizer |-> values.fertilizer,
     soil_ph |-> values.soil_ph, humidity |-> values.humidity,
     nitrogen |-> NumberOrZero(values.nitrogen),
     phosphorus |-> NumberOrZero(values.phosphorus),
     potassium |-> NumberOrZero(values.potassium)]

\* the submit button: disabled={loading || !form.formState.isValid}
SubmitDisabled(p) == p.loading \/ ~isValid(p.values)

\* the Generate Dataset button: disabled={generatingDataset}
GenerateDisabled(p) == p.generatingDataset

\* s without its i-th element
Without(s, i) == SubSeq(s, 1, i - 1) \o SubSeq(s, i + 1, Len(s))

\* handlePredictionComplete
handlePredictionComplete(p) ==
    [p EXCEPT !.refreshTrigger = @ + 1, !.activeTab = "results"]

\* onSubmit up to its await: the flag is set and the request sent
onSubmitSent(p) ==
    [p EXCEPT !.loading = TRUE,
              !.submits = Append(@, [payload |-> Payload(p.values)] @@
                                    Sent(p.submitted + 1)),
              !.submitted = @ + 1]

\* onSubmit with the callback in the finally clause
onSubmitSettledAlwaysCompletes(p, i, error) ==
    LET q == IF error THEN handlePredictionComplete(p)
             ELSE [handlePredictionComplete(p) EXCEPT !.values = defaultValues]
    IN  [q EXCEPT !.loading = FALSE, !.submits = Without(@, i)]

\* onSubmit with setLoading(false) at the end of the try block instead of in
\* a finally clause
onSubmitSettledNoFinally(p, i, error) ==
    IF error THEN [p EXCEPT !.submits = Without(@, i)]
    ELSE [handlePredictionComplete(p) EXCEPT !.values = defaultValues,
                                             !.loading = FALSE,
                                             !.submits = Without(@, i)]

\* onSubmit from the answer of request i on: with no error the callback and
\* form.reset(), with an error the toast only; finally the flag is cleared
onSubmitSettled(p, i, error) ==
    LET q == IF error THEN p
             ELSE [handlePredictionComplete(p) EXCEPT !.values = defaultValues]
    IN  [q EXCEPT !.loading = FALSE, !.submits = Without(@, i)]

\* handleGenerateDataset up to its await
handleGenerateDatasetSent(p) ==
    [p EXCEPT !.generatingDataset = TRUE, !.generations = @ + 1,
              !.generated = @ + 1]

\* handleGenerateDataset from the answer on: a toast, and finally the flag
handleGenerateDatasetSettled(p, error) ==
    [p EXCEPT !.generatingDataset = FALSE, !.generations = @ - 1]

\* useEffect(..., [refreshTrigger]) of PredictionResults after a render that
\* follows the render of state before: a changed refreshTrigger sends a fetch
refreshEffect(p, before) ==
    IF p.refreshTrigger # before.refreshTrigger
    THEN [p EXCEPT !.fetches = Append(@, Sent(p.refreshTrigger))]
    ELSE p

\* JSON.stringify(simulatedImportances), the text column, and JSON.parse of it
JsonStringify(obj) == [json |-> obj]

JsonParse(text) == text.json

\* the row predict-yield (the NPK version) stores for the payload, with the
\* id and the creation order the table gives it
StoredPrediction(payload, id) ==
    LET handled == Handle("npk", "POST", TRUE, payload, "null", "rows", FALSE)
    IN  [id |-> id, created_at |-> id,
         predicted_crop |-> handled.row.predicted_crop,
         best_model |-> handled.row.best_model,
         predicted_yield_lr |-> handled.row.predicted_yield_lr,
         feature_importances |-> JsonStringify(handled.row.feature_importances)]

\* a row stored before the feature_importances column was added
OlderPrediction ==
    [id |-> 0, created_at |-> 0, predicted_crop |-> "Barley",
     best_model |-> "Linear Regression", predicted_yield_lr |-> I(500),
     feature_importances |-> Null]

\* .order("created_at", { ascending: false }).limit(1).maybeSingle()
LatestPrediction(table) == IF Len(table) = 0 THEN Null ELSE table[Len(table)]

\* fetchLatestPrediction from the answer on
fetchLatestPredictionSettled(p, data, error) ==
    IF data # Null /\ ~error
    THEN [p EXCEPT !.latestPrediction = data,
                   !.featureImportances =
                       IF data.feature_importances # Null
                       THEN JsonParse(data.feature_importances) ELSE @]
    ELSE p

---------------------------------------------------------------------------
(* SpecPage: a user of the page who edits the form, changes the tab and    *)
(* clicks the two buttons (up to MaxSubmits and MaxGenerateClicks times),  *)
(* with the requests answered in any order.                                *)

MaxSubmits == 2

MaxGenerateClicks == 1

\* the values of the form: the defaults, a valid form with the nutrient
\* inputs left empty, and the same with a temperature the schema refuses
FilledForm ==
    [crop |-> "wheat", temperature |-> I(25), rainfall |-> I(1000),
     fertilizer |-> I(100), soil_ph |-> Q(65, 10), humidity |-> I(60),
     nitrogen |-> Empty, phosphorus |-> Empty, potassium |-> Empty]

FormValues ==
    {defaultValues, FilledForm, [FilledForm EXCEPT !.temperature = I(70)]}

Tabs == {"predict", "results", "history"}

\* how a function invocation ends: answered with success; refused (the
\* function answers 500, nothing stored); lost (the function did its work
\* and the answer did not arrive)
InvokeOutcomes == {"ok", "refused", "lost"}

\* the user changes the inputs of the form
EditForm(values) ==
    /\ page.activeTab = "predict"
    /\ values # page.values
    /\ page' = [page EXCEPT !.values = values]
    /\ UNCHANGED <<hist, crops_dataset, storeVars, flowVars, knn, lrIn, lrCalls, cropIn,
                   cropOut, genOut, cnOut>>

\* onValueChange={setActiveTab}
SelectTab(tab) ==
    /\ tab # page.activeTab
    /\ page' = [page EXCEPT !.activeTab = tab]
    /\ UNCHANGED <<hist, crops_dataset, storeVars, flowVars, knn, lrIn, lrCalls, cropIn,
                   cropOut, genOut, cnOut>>

\* the form is submitted: onSubmit runs to its await
Submit ==
    /\ page.activeTab = "predict"
    /\ ~SubmitDisabled(page)
    /\ page.submitted < MaxSubmits
    /\ page' = onSubmitSent(page)
    /\ UNCHANGED <<hist, crops_dataset, storeVars, flowVars, knn, lrIn, lrCalls, cropIn,
                   cropOut, genOut, cnOut>>

\* predict-yield handles invocation i: it stores its row unless it refuses,
\* and its answer, or the error the client will see, is on its way
SubmitAnswer(i, outcome) ==
    /\ i \in 1..Len(page.submits)
    /\ page.submits[i].phase = "sent"
    /\ \E row \in {StoredPrediction(page.submits[i].payload, Len(predictions) + 1)} :
        /\ predictions' =
               IF outcome = "refused" THEN predictions ELSE Append(predictions, row)
        /\ page' = [page EXCEPT !.submits[i] =
                       [@ EXCEPT !.phase = "read",
                                 !.data = IF outcome = "ok" THEN row ELSE Null,
                                 !.error = outcome # "ok"]]
    /\ UNCHANGED <<hist, crops_dataset, model_metrics, serve, flowVars, knn, lrIn, lrCalls,
                   cropIn, cropOut, genOut, cnOut>>

\* the answer of invocation i arrives and onSubmit runs to its end; the
\* render that follows runs the effect of PredictionResults
SubmitSettle(i) ==
    /\ i \in 1..Len(page.submits)
    /\ page.submits[i].phase = "read"
    /\ \E settled \in {onSubmitSettled(page, i, page.submits[i].error)} :
           page' = refreshEffect(settled, page)
    /\ UNCHANGED <<hist, crops_dataset, storeVars, flowVars, knn, lrIn, lrCalls, cropIn,
                   cropOut, genOut, cnOut>>

\* the Generate Dataset button is clicked: handleGenerateDataset runs to its await
Generate ==
    /\ ~GenerateDisabled(page)
    /\ page.generated < MaxGenerateClicks
    /\ page' = handleGenerateDatasetSent(page)
    /\ UNCHANGED <<hist, crops_dataset, storeVars, flowVars, knn, lrIn, lrCalls, cropIn,
                   cropOut, genOut, cnOut>>

\* the invocation of generate-dataset ends
GenerateSettle(error) ==
    /\ page.generations > 0
    /\ page' = handleGenerateDatasetSettled(page, error)
    /\ UNCHANGED <<hist, crops_dataset, storeVars, flowVars, knn, lrIn, lrCalls, cropIn,
                   cropOut, genOut, cnOut>>

\* the store executes the select of fetch i, or refuses it
FetchRead(i, failed) ==
    /\ i \in 1..Len(page.fetches)
    /\ page.fetches[i].phase = "sent"
    /\ page' = [page EXCEPT !.fetches[i] =
                   [@ EXCEPT !.phase = "read",
                             !.data = IF failed THEN Null
                                      ELSE LatestPrediction(predictions),
                             !.error = failed],
                             !.fetchFailed = @ \/ failed]
    /\ UNCHANGED <<hist, crops_dataset, storeVars, flowVars, knn, lrIn, lrCalls, cropIn,
                   cropOut, genOut, cnOut>>

\* the answer of fetch i arrives and fetchLatestPrediction runs to its end
FetchSettle(i) ==
    /\ i \in 1..Len(page.fetches)
    /\ page.fetches[i].phase = "read"
    /\ page' = [fetchLatestPredictionSettled(page, page.fetches[i].data,
                                             page.fetches[i].error)
                   EXCEPT !.fetches = Without(@, i)]
    /\ UNCHANGED <<hist, crops_dataset, storeVars, flowVars, knn, lrIn, lrCalls, cropIn,
                   cropOut, genOut, cnOut>>

InitPage ==
    /\ crops_dataset = <<>>
    /\ model_metrics = <<>>
    /\ predictions \in {<<>>, <<OlderPrediction>>}
    /\ serve = ServeNone
    /\ page = PageNone /\ hist = HistNone
    /\ FlowIdle /\ KnnIdle /\ CnIdle /\ LrIdle /\ CropIdle /\ GenIdle

NextPage ==
    \/ \E values \in FormValues : EditForm(values)
    \/ \E tab \in Tabs : SelectTab(tab)
    \/ Submit
    \/ \E i \in 1..MaxSubmits, outcome \in InvokeOutcomes : SubmitAnswer(i, outcome)
    \/ \E i \in 1..MaxSubmits : SubmitSettle(i)
    \/ Generate
    \/ \E error \in BOOLEAN : GenerateSettle(error)
    \/ \E i \in 1..(MaxSubmits + 1), failed \in BOOLEAN : FetchRead(i, failed)
    \/ \E i \in 1..(MaxSubmits + 1) : FetchSettle(i)

SpecPage == InitPage /\ [][NextPage]_vars

---------------------------------------------------------------------------
(* Properties of the page, under SpecPage.                                 *)

SubmissionSettles == Len(page.submits) = 1 /\ page'.submits = <<>>

\* C22: a successful form submission calls onPredictionComplete exactly
\* once, so that refreshTrigger grows by exactly 1 and the active tab becomes
\* 'results', and resets the form; a failed submission leaves refreshTrigger,
\* the active tab and the form values unchanged; refreshTrigger never
\* decreases.
C22_SubmissionOutcome ==
    [][/\ (SubmissionSettles /\ ~page.submits[1].error) =>
              /\ page'.refreshTrigger = page.refreshTrigger + 1
              /\ page'.activeTab = "results"
              /\ page'.values = defaultValues
       /\ (SubmissionSettles /\ page.submits[1].error) =>
              /\ page'.refreshTrigger = page.refreshTrigger
              /\ page'.activeTab = page.activeTab
              /\ page'.values = page.values
       /\ page'.refreshTrigger >= page.refreshTrigger]_vars

\* two submissions have settled, exactly one of them with success, and the
\* last answer found the user on the history tab with the form filled again
C22_Witness ==
    /\ page.submitted = 2 /\ page.submits = <<>> /\ page.refreshTrigger = 1
    /\ page.activeTab = "history" /\ page.values = FilledForm

\* every request of the page has been answered, every submission that stored
\* a row was answered with success, and the store has refused no fetch
AllSettled ==
    /\ page.fetches = <<>> /\ page.submits = <<>>
    /\ ~page.fetchFailed
    /\ Cardinality({k \in 1..Len(predictions) : predictions[k].id > 0})
           = page.refreshTrigger

\* the feature importances stored with a row
StoredImportances(row) ==
    IF row.feature_importances = Null THEN Null
    ELSE JsonParse(row.feature_importances)

\* C27: after every fetch started by a change of refreshTrigger has settled,
\* PredictionResults displays the most recently created prediction, and the
\* feature importances displayed are those stored with it, also when two
\* fetches overlap and their answers arrive out of order.
C27_DisplaysLatest ==
    AllSettled =>
        /\ page.latestPrediction = LatestPrediction(predictions)
        /\ page.latestPrediction # Null =>
               page.featureImportances = StoredImportances(page.latestPrediction)

\* two fetches started by changes of refreshTrigger were answered out of
\* order on a store that was empty at the start: both submitted rows are
\* stored and the first of them is displayed
C27_OutOfOrder ==
    /\ AllSettled /\ page.refreshTrigger = 2
    /\ \A k \in 1..Len(predictions) : predictions[k].id > 0
    /\ page.latestPrediction # Null
    /\ page.latestPrediction # LatestPrediction(predictions)

---------------------------------------------------------------------------
(* PredictionHistory (src/components/PredictionHistory.tsx). A string that *)
(* is searched is the sequence of its characters.                          *)

\* the characters of the crop names
CropChars ==
    [Rice |-> <<"R", "i", "c", "e">>, Wheat |-> <<"W", "h", "e", "a", "t">>,
     Corn |-> <<"C", "o", "r", "n">>]

\* toLowerCase of a character
LowerChar(c) ==
    CASE c = "R" -> "r" [] c = "W" -> "w" [] c = "C" -> "c" [] c = "E" -> "e"
      [] c = "I" -> "i" [] OTHER -> c

\* s.toLowerCase()
toLowerCase(s) == [k \in 1..Len(s) |-> LowerChar(s[k])]

\* s.includes(t), with the characters compared as they are
includesExact(s, t) == \E o \in 0..(Len(s) - Len(t)) : SubSeq(s, o + 1, o + Len(t)) = t

\* s.includes(t)
includes(s, t) == \E o \in 0..(Len(s) - Len(t)) : SubSeq(s, o + 1, o + Len(t)) = t

\* the search filter without the two toLowerCase calls
SearchMatchesExact(p, searchTerm) == includesExact(CropChars[p.predicted_crop], searchTerm)

\* p.predicted_crop?.toLowerCase().includes(searchTerm.toLowerCase())
SearchMatches(p, searchTerm) ==
    includes(toLowerCase(CropChars[p.predicted_crop]), toLowerCase(searchTerm))

\* filterPredictions: the three filters one after the other
filterPredictions(h) ==
    LET BySearch(p) == SearchMatches(p, h.searchTerm)
        ByCrop(p) == p.predicted_crop = h.filterCrop
        ByModel(p) == p.best_model = h.filterModel
        searched == IF h.searchTerm # <<>> THEN SelectSeq(h.predictions, BySearch)
                    ELSE h.predictions
        cropped == IF h.filterCrop # "all" THEN SelectSeq(searched, ByCrop) ELSE searched
    IN  IF h.filterModel # "all" THEN SelectSeq(cropped, ByModel) ELSE cropped

\* the effect on [filterPredictions], after a render
filterEffect(h) == [h EXCEPT !.filteredPredictions = filterPredictions(h)]

\* the rows a select of the history returns
FetchLimitHistory == 100

\* .order('created_at', { ascending: false }).limit(100)
HistorySelect(table) ==
    [k \in 1..Min(Len(table), FetchLimitHistory) |-> table[Len(table) + 1 - k]]

\* data || []
RowsOrEmpty(data) == IF data.null THEN <<>> ELSE data.rows

\* loadPredictionHistory up to its await
loadPredictionHistorySent(h) ==
    [h EXCEPT !.isLoading = TRUE, !.error = "",
              !.loads = Append(@, Sent(h.retried + 1)), !.retried = @ + 1]

\* loadPredictionHistory without its finally clause
loadPredictionHistorySettledNoFinally(h, i) ==
    LET d == h.loads[i]
    IN  IF d.error
        THEN [h EXCEPT !.error = "Failed to load prediction history.",
                       !.predictions = <<>>, !.loaded = <<>>, !.removed = {},
                       !.loads = Without(@, i)]
        ELSE [h EXCEPT !.predictions = RowsOrEmpty(d.data),
                       !.loaded = RowsOrEmpty(d.data), !.removed = {},
                       !.isLoading = FALSE, !.loads = Without(@, i)]

\* loadPredictionHistory from the answer of load i on
loadPredictionHistorySettled(h, i) ==
    LET d == h.loads[i]
    IN  IF d.error
        THEN [h EXCEPT !.error = "Failed to load prediction history.",
                       !.predictions = <<>>, !.loaded = <<>>, !.removed = {},
                       !.isLoading = FALSE, !.loads = Without(@, i)]
        ELSE [h EXCEPT !.predictions = RowsOrEmpty(d.data),
                       !.loaded = RowsOrEmpty(d.data), !.removed = {},
                       !.isLoading = FALSE, !.loads = Without(@, i)]

\* p => p.id !== id
OtherId(s, id) == LET Keep(p) == p.id # id IN SelectSeq(s, Keep)

\* handleDelete after the confirmation, up to its await; seen is the
\* predictions of the render whose handler was called
handleDeleteSent(h, id) ==
    [h EXCEPT !.deletes = Append(@, [seen |-> h.predictions,
                                     beside |-> Len(h.deletes)] @@ Sent(id))]

\* handleDelete with setPredictions(predictions.filter(...)), the list of the
\* render whose handler was called
handleDeleteSettledStaleCopy(h, i) ==
    LET d == h.deletes[i]
    IN  IF d.error
        THEN [h EXCEPT !.error = "Failed to delete prediction.",
                       !.deletes = Without(@, i)]
        ELSE [h EXCEPT !.predictions = OtherId(d.seen, d.id),
                       !.removed = @ \cup {d.id}, !.raced = @ \/ d.beside > 0,
                       !.deletes = Without(@, i)]

\* handleDelete with a catch clause that only logs
handleDeleteSettledLogsOnly(h, i) ==
    LET d == h.deletes[i]
    IN  IF d.error
        THEN [h EXCEPT !.deletes = Without(@, i)]
        ELSE [h EXCEPT !.predictions = OtherId(h.predictions, d.id),
                       !.removed = @ \cup {d.id}, !.raced = @ \/ d.beside > 0,
                       !.deletes = Without(@, i)]

\* handleDelete from the answer of deletion i on
handleDeleteSettled(h, i) ==
    LET d == h.deletes[i]
    IN  IF d.error
        THEN [h EXCEPT !.error = "Failed to delete prediction.",
                       !.deletes = Without(@, i)]
        ELSE [h EXCEPT !.predictions = OtherId(h.predictions, d.id),
                       !.removed = @ \cup {d.id}, !.raced = @ \/ d.beside > 0,
                       !.deletes = Without(@, i)]

\* uniqueCrops and uniqueModels
uniqueCrops(h) == {h.predictions[k].predicted_crop : k \in 1..Len(h.predictions)}

uniqueModels(h) == {h.predictions[k].best_model : k \in 1..Len(h.predictions)}

\* the list is rendered: not the skeletons, not the error panel
ListShown(h) == ~h.isLoading /\ h.error = ""

\* the error panel with the Retry Loading button is rendered
ErrorPanelShown(h) == ~h.isLoading /\ h.error # ""

---------------------------------------------------------------------------
(* SpecHistory: a user of PredictionHistory who deletes (up to MaxDeletes   *)
(* clicks) and retries (up to MaxRetries clicks), on a table of up to      *)
(* MaxHistoryRows rows or of more rows than a select returns, with the     *)
(* requests answered in any order. SpecFilter: the same user, who also     *)
(* searches and filters, and deletes up to MaxFilterDeletes times.         *)

MaxHistoryRows == 3

MaxDeletes == 2

MaxRetries == 1

MaxDeclines == 1

MaxFilterDeletes == 1

\* the rows of table predictions, as far as the component reads them
HistoryRow(id, crop, model) ==
    [id |-> id, created_at |-> id, predicted_crop |-> crop, best_model |-> model]

\* a table of one row more than a select returns
LongTable ==
    [id \in 1..(FetchLimitHistory + 1) |->
        IF id % 3 = 0 THEN HistoryRow(id, "Corn", "Random Forest")
        ELSE IF id % 3 = 1 THEN HistoryRow(id, "Rice", "Linear Regression")
        ELSE HistoryRow(id, "Wheat", "Random Forest")]

\* the tables: the first rows of LongTable, up to MaxHistoryRows, and all of it
HistoryTables ==
    {SubSeq(LongTable, 1, n) : n \in 0..MaxHistoryRows} \cup {LongTable}

\* what the user types in the search box
SearchTerms == {<<>>, <<"E">>}

Models == {"Linear Regression", "Random Forest"}

\* onChange of the search box
SetSearchTerm(term) ==
    /\ ~hist.isLoading
    /\ term # hist.searchTerm
    /\ hist' = filterEffect([hist EXCEPT !.searchTerm = term])
    /\ UNCHANGED <<page, crops_dataset, storeVars, flowVars, knn, lrIn, lrCalls, cropIn,
                   cropOut, genOut, cnOut>>

\* onValueChange={setFilterCrop}
SetFilterCrop(crop) ==
    /\ ~hist.isLoading
    /\ crop \in {"all"} \cup uniqueCrops(hist)
    /\ crop # hist.filterCrop
    /\ hist' = filterEffect([hist EXCEPT !.filterCrop = crop])
    /\ UNCHANGED <<page, crops_dataset, storeVars, flowVars, knn, lrIn, lrCalls, cropIn,
                   cropOut, genOut, cnOut>>

\* onValueChange={setFilterModel}
SetFilterModel(model) ==
    /\ ~hist.isLoading
    /\ model \in {"all"} \cup uniqueModels(hist)
    /\ model # hist.filterModel
    /\ hist' = filterEffect([hist EXCEPT !.filterModel = model])
    /\ UNCHANGED <<page, crops_dataset, storeVars, flowVars, knn, lrIn, lrCalls, cropIn,
                   cropOut, genOut, cnOut>>

\* the delete button of a listed row is clicked and the confirmation answered
DeleteClick(id, confirmed) ==
    /\ ListShown(hist)
    /\ \E k \in 1..Len(hist.filteredPredictions) : hist.filteredPredictions[k].id = id
    /\ IF confirmed THEN hist.asked < MaxDeletes ELSE hist.declined < MaxDeclines
    /\ hist' = IF confirmed
               THEN [handleDeleteSent(hist, id) EXCEPT !.asked = @ + 1]
               ELSE [hist EXCEPT !.declined = @ + 1]
    /\ UNCHANGED <<page, crops_dataset, storeVars, flowVars, knn, lrIn, lrCalls, cropIn,
                   cropOut, genOut, cnOut>>

\* the answers of the store to a delete: the table has row level security
\* with policies for SELECT and INSERT only, and the key of the browser client
\* is not part of the sources, so a delete that is not refused removes the
\* row (a key that bypasses the policies) or no row (no DELETE policy)
DeleteOutcomes == {"deleted", "kept", "refused"}

\* the store executes deletion i, or refuses it
DeleteRead(i, outcome) ==
    /\ i \in 1..Len(hist.deletes)
    /\ hist.deletes[i].phase = "sent"
    /\ predictions' = IF outcome = "deleted"
                      THEN OtherId(predictions, hist.deletes[i].id)
                      ELSE predictions
    /\ hist' = [hist EXCEPT !.deletes[i] = [@ EXCEPT !.phase = "read",
                                                     !.error = (outcome = "refused")]]
    /\ UNCHANGED <<page, crops_dataset, model_metrics, serve, flowVars, knn, lrIn, lrCalls,
                   cropIn, cropOut, genOut, cnOut>>

\* the answer of deletion i arrives and handleDelete runs to its end
DeleteSettle(i) ==
    /\ i \in 1..Len(hist.deletes)
    /\ hist.deletes[i].phase = "read"
    /\ hist' = filterEffect(handleDeleteSettled(hist, i))
    /\ UNCHANGED <<page, crops_dataset, storeVars, flowVars, knn, lrIn, lrCalls, cropIn,
                   cropOut, genOut, cnOut>>

\* Retry Loading is clicked
Retry ==
    /\ ErrorPanelShown(hist)
    /\ hist.retried < MaxRetries
    /\ hist' = loadPredictionHistorySent(hist)
    /\ UNCHANGED <<page, crops_dataset, storeVars, flowVars, knn, lrIn, lrCalls, cropIn,
                   cropOut, genOut, cnOut>>

\* the store executes the select of load i, or refuses it
LoadRead(i, failed) ==
    /\ i \in 1..Len(hist.loads)
    /\ hist.loads[i].phase = "sent"
    /\ hist' = [hist EXCEPT !.loads[i] =
                   [@ EXCEPT !.phase = "read",
                             !.data = IF failed THEN NullData
                                      ELSE Rows(HistorySelect(predictions)),
                             !.error = failed]]
    /\ UNCHANGED <<page, crops_dataset, storeVars, flowVars, knn, lrIn, lrCalls, cropIn,
                   cropOut, genOut, cnOut>>

\* the answer of load i arrives and loadPredictionHistory runs to its end
LoadSettle(i) ==
    /\ i \in 1..Len(hist.loads)
    /\ hist.loads[i].phase = "read"
    /\ hist' = filterEffect(loadPredictionHistorySettled(hist, i))
    /\ UNCHANGED <<page, crops_dataset, storeVars, flowVars, knn, lrIn, lrCalls, cropIn,
                   cropOut, genOut, cnOut>>

InitHistory ==
    /\ crops_dataset = <<>>
    /\ model_metrics = <<>>
    /\ predictions \in HistoryTables
    /\ serve = ServeNone
    /\ page = PageNone /\ hist = HistNone
    /\ FlowIdle /\ KnnIdle /\ CnIdle /\ LrIdle /\ CropIdle /\ GenIdle

NextHistory ==
    \/ \E id \in 1..MaxHistoryRows, confirmed \in BOOLEAN : DeleteClick(id, confirmed)
    \/ \E i \in 1..MaxDeletes, outcome \in DeleteOutcomes : DeleteRead(i, outcome)
    \/ \E i \in 1..MaxDeletes : DeleteSettle(i)
    \/ Retry
    \/ \E i \in 1..(MaxRetries + 1), failed \in BOOLEAN : LoadRead(i, failed)
    \/ \E i \in 1..(MaxRetries + 1) : LoadSettle(i)

SpecHistory == InitHistory /\ [][NextHistory]_vars

\* the delete button of a row the filters let through is clicked
DeleteClickFiltered(id, confirmed) ==
    /\ hist.asked < MaxFilterDeletes
    /\ DeleteClick(id, confirmed)

NextFilter ==
    \/ \E term \in SearchTerms : SetSearchTerm(term)
    \/ \E crop \in DOMAIN CropChars \cup {"all"} : SetFilterCrop(crop)
    \/ \E model \in Models \cup {"all"} : SetFilterModel(model)
    \/ \E id \in 1..MaxHistoryRows, confirmed \in BOOLEAN :
           DeleteClickFiltered(id, confirmed)
    \/ \E i \in 1..MaxDeletes, outcome \in DeleteOutcomes : DeleteRead(i, outcome)
    \/ \E i \in 1..MaxDeletes : DeleteSettle(i)
    \/ Retry
    \/ \E i \in 1..(MaxRetries + 1), failed \in BOOLEAN : LoadRead(i, failed)
    \/ \E i \in 1..(MaxRetries + 1) : LoadSettle(i)

SpecFilter == InitHistory /\ [][NextFilter]_vars

---------------------------------------------------------------------------
(* The filter of PredictionHistory, under SpecFilter.                      *)

\* the characters of searchTerm occur in a row's crop name, letter case aside
ContainsTerm(p) ==
    LET crop == CropChars[p.predicted_crop]
    IN  \E o \in 0..(Len(crop) - Len(hist.searchTerm)) :
            \A k \in 1..Len(hist.searchTerm) :
                LowerChar(crop[o + k]) = LowerChar(hist.searchTerm[k])

\* the row passes the search box and the two selects
Passes(p) ==
    /\ hist.searchTerm # <<>> => ContainsTerm(p)
    /\ hist.filterCrop # "all" => p.predicted_crop = hist.filterCrop
    /\ hist.filterModel # "all" => p.best_model = hist.filterModel

\* C23: once the filter effect has run after a change of predictions,
\* searchTerm, filterCrop or filterModel, filteredPredictions is the sub-list
\* of predictions, in the same order, of the entries whose predicted_crop
\* contains searchTerm case-insensitively (when it is non-empty), whose
\* predicted_crop equals filterCrop (unless 'all') and whose best_model
\* equals filterModel (unless 'all'); its entries are entries of predictions.
C23_FilteredIsMatchingSublist ==
    /\ hist.filteredPredictions = SelectSeq(hist.predictions, Passes)
    /\ Range(hist.filteredPredictions) \subseteq Range(hist.predictions)

\* the hundred rows of a load searched with an upper-case letter and
\* filtered by model: some rows pass, some fail the search, some the model
C23_Witness ==
    /\ Len(hist.predictions) = FetchLimitHistory
    /\ hist.searchTerm = <<"E">> /\ hist.filterCrop = "all"
    /\ hist.filterModel = "Random Forest"
    /\ Len(hist.filteredPredictions) > 0
    /\ \E k \in 1..Len(hist.predictions) : ~ContainsTerm(hist.predictions[k])
    /\ \E k \in 1..Len(hist.predictions) :
           /\ ContainsTerm(hist.predictions[k])
           /\ hist.predictions[k].best_model # "Random Forest"

(***************************************************************************)
(* Deletions of PredictionHistory, under SpecHistory                       *)
(***************************************************************************)

\* the state of the component
ComponentState(h) ==
    <<h.predictions, h.filteredPredictions, h.searchTerm, h.filterCrop,
      h.filterModel, h.isLoading, h.error>>

\* the user declines a confirmation in this step
Declines == hist'.declined = hist.declined + 1

\* deletion i is answered in this step
DeleteAnswered(i) ==
    /\ i \in 1..Len(hist.deletes)
    /\ hist.deletes[i].phase = "read"
    /\ Len(hist'.deletes) = Len(hist.deletes) - 1
    /\ hist'.deletes = Without(hist.deletes, i)

\* s with the entries of that id left out
WithoutId(s, id) == LET Other(p) == p.id # id IN SelectSeq(s, Other)

\* a step that sends no delete and leaves the component and the table alone
DeclinedLeavesAll ==
    /\ hist'.deletes = hist.deletes
    /\ ComponentState(hist') = ComponentState(hist)
    /\ predictions' = predictions

\* what the answer of a deletion does to the list and the error
AnsweredDeletesApplied ==
    \A i \in 1..Len(hist.deletes) :
        DeleteAnswered(i) =>
            IF hist.deletes[i].error
            THEN /\ hist'.predictions = hist.predictions
                 /\ hist'.error # ""
            ELSE hist'.predictions = WithoutId(hist.predictions, hist.deletes[i].id)

\* C24: a declined confirmation sends no delete and leaves the state of the
\* component and the table as they are; a refused delete leaves the list as
\* it is and sets the error; an executed one removes exactly the entries of
\* that id from the list, the others staying in their order
C24_DeleteOutcome ==
    [][(Declines => DeclinedLeavesAll) /\ AnsweredDeletesApplied]_vars

\* a confirmation was declined, a delete was refused and another executed,
\* and entries remain
C24_Witness ==
    /\ hist.declined > 0
    /\ hist.error = "Failed to delete prediction."
    /\ hist.removed # {}
    /\ hist.deletes = <<>>
    /\ Len(hist.predictions) > 0

\* C25: the list is the list of the last load without the ids whose
\* deletion was executed since, whatever the order of the answers
C25_NoLostRemoval ==
    LET Kept(p) == p.id \notin hist.removed
    IN  /\ hist.predictions = SelectSeq(hist.loaded, Kept)
        /\ \A k \in 1..Len(hist.predictions) : hist.predictions[k].id \notin hist.removed

\* two deletions of different predictions were in flight together, both
\* were executed, and the third entry is still listed
C25_Witness ==
    /\ hist.raced
    /\ Cardinality(hist.removed) = 2
    /\ hist.deletes = <<>>
    /\ Len(hist.loaded) = 3
    /\ Len(hist.predictions) = 1

(***************************************************************************)
(* Loads of PredictionHistory, under SpecHistory                           *)
(***************************************************************************)

\* load i is answered in this step
LoadAnswered(i) ==
    /\ i \in 1..Len(hist.loads)
    /\ hist.loads[i].phase = "read"
    /\ Len(hist'.loads) = Len(hist.loads) - 1
    /\ hist'.loads = Without(hist.loads, i)

\* at most FetchLimitHistory rows, the newest first
NewestFirst(rows) ==
    /\ Len(rows) <= FetchLimitHistory
    /\ \A k \in 1..(Len(rows) - 1) : rows[k].created_at > rows[k + 1].created_at

\* the rows of a successful load are listed after its answer
FetchedRowsShown(i) ==
    /\ hist'.error = ""
    /\ ListShown(hist')
    /\ hist'.predictions = hist.loads[i].data.rows
    /\ NewestFirst(hist'.predictions)

\* a failed load ends with the error panel and no entries
FailedLoadShown ==
    /\ hist'.predictions = <<>>
    /\ hist'.error # ""
    /\ ErrorPanelShown(hist')

\* C26: every load ends with isLoading = false; a failed load leaves
\* predictions empty and the error set, so that the error panel is shown; a
\* successful load, the one of a Retry too, ends with no error and the
\* fetched rows listed, at most 100 of them, the newest first
C26_LoadOutcome ==
    [][\A i \in 1..Len(hist.loads) :
          LoadAnswered(i) =>
              /\ hist'.isLoading = FALSE
              /\ IF hist.loads[i].error THEN FailedLoadShown ELSE FetchedRowsShown(i)]_vars

\* the same, but for the loads during which a deletion was refused
C26_UnlessDeleteRefusedMeanwhile ==
    [][\A i \in 1..Len(hist.loads) :
          LoadAnswered(i) =>
              /\ hist'.isLoading = FALSE
              /\ IF hist.loads[i].error THEN FailedLoadShown
                 ELSE hist.error = "" => FetchedRowsShown(i)]_vars

====
